---- MODULE Spec2Model ----
(***************************************************************************)
(* Verification model of go-har: the streaming entry cursor                *)
(* (StreamingHar / StreamingEntryIterator), the deferred content           *)
(* (LazyContent) and the deferred-to-canonical conversion.                 *)
(***************************************************************************)
EXTENDS Integers, Sequences, FiniteSets, TLC

VARIABLES
    doc,      \* the document bytes, as the JSON token stream encoding/json reads
    source,   \* "bytes" (NewStreamingHarFromBytes) or "file" (NewStreamingHarFromFile)
    har,      \* the StreamingHar: [file, data]
    it,       \* the StreamingEntryIterator: [data, pos, err, file, currentPos, entry, closed]
    obs,      \* what the caller has observed of the cursor so far
    thr,      \* concurrent callers of one cursor: [pc, op, entry, ret, afterClose, calls]
    writer,   \* the caller that last wrote it.closed and it.err (0: none)
    lc,       \* one LazyContent: [Size, MimeType, Text, Encoding, rawData, loaded]
    rw,       \* its loadMutex: [writer, readers]
    ld,       \* the goroutines forcing it: [pc, op, full, ret]
    decodes,  \* how often Load has run json.Unmarshal on lc.rawData
    cdoc,     \* a document given to ParseHar and to ParseHarWithLazyLoading
    strict,   \* what ParseHar returned for it
    lazy,     \* what ParseHarWithLazyLoading returned for it (the LazyHar is mutable)
    conv,     \* what LazyHar.ToStandardHar returned
    opt,      \* what ParseHarOptimized returned for it
    std,      \* what OptimizedHar.ToStandard returned
    ver,      \* a *Har given to DetectHarVersion: [isNil, Version], Version as bytes
    det,      \* what DetectHarVersion returned for it, and for its own result
    popts,    \* the ParseOptions of a ParseHarWithOptions call
    pres,     \* what ParseHarWithOptions returned for cdoc
    buf,      \* the byte buffer that holds cdoc: [len, first, last, json]
    pcall,    \* the options of a Parse call
    prov,     \* the HARProvider that Parse returned for buf, or that was made of pres
    access,   \* what the accessors of the entries of prov returned
    strm,     \* what NewStreamingParser returned for buf
    stdh,     \* what OptimizedHar.ToStandardHar returned
    warn      \* what ParseHarWithWarnings returned for cdoc

cursorVars == <<doc, source, har, it, obs>>
callerVars == <<thr, writer>>
lazyVars == <<lc, rw, ld, decodes>>
optVars == <<opt, std>>
verVars == <<ver, det>>
parseVars == <<popts, pres>>
provVars == <<buf, pcall, prov, access, strm, stdh, warn>>
convVars == <<cdoc, strict, lazy, conv, optVars, verVars, parseVars, provVars>>
vars == <<doc, source, har, it, obs, thr, writer, lc, rw, ld, decodes,
          cdoc, strict, lazy, conv, opt, std, ver, det, popts, pres,
          buf, pcall, prov, access, strm, stdh, warn>>

(***************************************************************************)
(* Bounds                                                                  *)
(***************************************************************************)
MaxEntries == 2      \* longest log.entries array of the documents
MaxCalls == 4        \* Next() calls per run
MaxCloses == 2       \* Close() calls per run
NCallers == 2        \* goroutines that share one cursor
MaxCallerCalls == 2  \* calls each goroutine makes
NLoaders == 2        \* goroutines that force one LazyContent (K)
MaxDocEntries == 2   \* longest log.entries of the documents given to the parsers

(***************************************************************************)
(* JSON documents as token streams (what json.Decoder.Token returns:       *)
(* delimiters, strings -- keys and values alike --, numbers, null).        *)
(***************************************************************************)
Delim(c) == [k |-> "delim", v |-> c, n |-> 0]
Str(s) == [k |-> "str", v |-> s, n |-> 0]
Num(i) == [k |-> "num", v |-> "", n |-> i]
Null == [k |-> "null", v |-> "", n |-> 0]

IsOpen(t) == t.k = "delim" /\ t.v \in {"{", "["}
IsClose(t) == t.k = "delim" /\ t.v \in {"}", "]"}

\* The entry object {"time": i}
EntryJSON(i) == <<Delim("{"), Str("time"), Num(i), Delim("}")>>

RECURSIVE EntryList(_, _)
EntryList(from, to) ==
    IF from > to THEN <<>> ELSE EntryJSON(from) \o EntryList(from + 1, to)

\* "entries": [ {"time": from}, ..., {"time": to} ]
EntriesMember(from, to) ==
    <<Str("entries"), Delim("[")>> \o EntryList(from, to) \o <<Delim("]")>>

Obj(members) == <<Delim("{")>> \o members \o <<Delim("}")>>
LogDoc(before, logMembers, after) ==
    Obj(before \o <<Str("log")>> \o Obj(logMembers) \o after)

CreatorMember(name) ==
    <<Str("creator")>> \o Obj(<<Str("name"), Str(name), Str("version"), Str("1")>>)

\* Documents {"log": {"entries": [...]}} with n entries
PlainDocs == {LogDoc(<<>>, EntriesMember(1, n), <<>>) : n \in 0..MaxEntries}

\* Documents with version, creator and pages ahead of the entries
HeaderDocs ==
    {LogDoc(<<>>,
            <<Str("version"), Str("1.2")>> \o CreatorMember("har")
                \o <<Str("pages"), Delim("["), Delim("]")>> \o EntriesMember(1, n),
            <<>>) : n \in 0..MaxEntries}

\* Documents whose entries member comes ahead of other members of log
TrailerDocs ==
    {LogDoc(<<>>,
            EntriesMember(1, n) \o <<Str("pages"), Null>> \o CreatorMember("har"),
            <<>>) : n \in 0..MaxEntries}

\* Documents in which the string "entries" also occurs elsewhere
StrayDocs ==
    {LogDoc(<<>>, CreatorMember("entries") \o EntriesMember(1, n), <<>>)
        : n \in 0..MaxEntries}
    \cup {LogDoc(<<>>, EntriesMember(1, 0), EntriesMember(1, n)) : n \in 0..MaxEntries}
    \cup {LogDoc(EntriesMember(1, 1) , EntriesMember(2, n), <<>>) : n \in 1..MaxEntries}
    \cup {LogDoc(<<Str("entries"), Delim("[")>> \o EntryJSON(1) \o <<Num(7), Delim("]")>>,
                 EntriesMember(1, 0), <<>>),
          LogDoc(<<Str("entries"), Delim("["), Str("x"), Delim("]")>>,
                 EntriesMember(1, 1), <<>>)}

\* Documents that are no archive: log.entries holding a number, log a string
BadDocs ==
    {LogDoc(<<>>, <<Str("entries"), Delim("["), Num(7), Delim("]")>>, <<>>),
     Obj(<<Str("log"), Str("x")>>),
     <<Delim("["), Delim("]")>>}

Docs == PlainDocs \cup HeaderDocs \cup TrailerDocs \cup StrayDocs \cup BadDocs

(***************************************************************************)
(* encoding/json, as far as the cursor uses it                             *)
(***************************************************************************)
Entries == [Time : Int]
ZeroEntry == [Time |-> 0]

RECURSIVE SkipNested(_, _, _)
SkipNested(data, i, depth) ==
    IF depth = 0 \/ i > Len(data) THEN i
    ELSE IF IsOpen(data[i]) THEN SkipNested(data, i + 1, depth + 1)
    ELSE IF IsClose(data[i]) THEN SkipNested(data, i + 1, depth - 1)
    ELSE SkipNested(data, i + 1, depth)

\* The index just past the JSON value that starts at token i
SkipValue(data, i) ==
    IF IsOpen(data[i]) THEN SkipNested(data, i + 1, 1) ELSE i + 1

\* Members of the object whose first key is at i, decoded into Entries e
RECURSIVE UnmarshalEntryMembers(_, _, _, _)
UnmarshalEntryMembers(data, i, e, ok) ==
    IF i > Len(data) \/ IsClose(data[i]) THEN [entry |-> e, ok |-> ok]
    ELSE LET val == data[i + 1]
             next == SkipValue(data, i + 1)
         IN  IF data[i].v = "time"
             THEN IF val.k = "num"
                  THEN UnmarshalEntryMembers(data, next, [e EXCEPT !.Time = val.n], ok)
                  ELSE IF val.k = "null"
                  THEN UnmarshalEntryMembers(data, next, e, ok)
                  ELSE UnmarshalEntryMembers(data, next, e, FALSE)
             ELSE UnmarshalEntryMembers(data, next, e, ok)

\* json.Unmarshal of the value at token i into a fresh Entries
UnmarshalEntry(data, i) ==
    IF data[i].k = "null" THEN [entry |-> ZeroEntry, ok |-> TRUE]
    ELSE IF data[i] = Delim("{") THEN UnmarshalEntryMembers(data, i + 1, ZeroEntry, TRUE)
    ELSE [entry |-> ZeroEntry, ok |-> FALSE]

\* Elements of the array whose first element is at i, decoded into []Entries
RECURSIVE UnmarshalEntryElems(_, _, _, _)
UnmarshalEntryElems(data, i, acc, ok) ==
    IF i > Len(data) \/ IsClose(data[i]) THEN [entries |-> acc, ok |-> ok]
    ELSE LET u == UnmarshalEntry(data, i)
         IN  UnmarshalEntryElems(data, SkipValue(data, i),
                                 Append(acc, u.entry), ok /\ u.ok)

\* Members of the log object whose first key is at i, decoded into Log
RECURSIVE UnmarshalLogMembers(_, _, _, _)
UnmarshalLogMembers(data, i, acc, ok) ==
    IF i > Len(data) \/ IsClose(data[i]) THEN [entries |-> acc, ok |-> ok]
    ELSE LET val == data[i + 1]
             next == SkipValue(data, i + 1)
             key == data[i].v
         IN  IF key = "entries"
             THEN IF val = Delim("[")
                  THEN LET u == UnmarshalEntryElems(data, i + 2, <<>>, TRUE)
                       IN  UnmarshalLogMembers(data, next, u.entries, ok /\ u.ok)
                  ELSE UnmarshalLogMembers(data, next, acc, ok /\ val.k = "null")
             ELSE IF key = "version"
             THEN UnmarshalLogMembers(data, next, acc, ok /\ val.k \in {"str", "null"})
             ELSE IF key = "creator"
             THEN UnmarshalLogMembers(data, next, acc,
                                      ok /\ (val = Delim("{") \/ val.k = "null"))
             ELSE IF key = "pages"
             THEN UnmarshalLogMembers(data, next, acc,
                                      ok /\ (val = Delim("[") \/ val.k = "null"))
             ELSE UnmarshalLogMembers(data, next, acc, ok)

\* Members of the top-level object whose first key is at i, decoded into Har
RECURSIVE UnmarshalHarMembers(_, _, _, _)
UnmarshalHarMembers(data, i, acc, ok) ==
    IF i > Len(data) \/ IsClose(data[i]) THEN [entries |-> acc, ok |-> ok]
    ELSE LET val == data[i + 1]
             next == SkipValue(data, i + 1)
         IN  IF data[i].v = "log"
             THEN IF val = Delim("{")
                  THEN LET u == UnmarshalLogMembers(data, i + 2, acc, TRUE)
                       IN  UnmarshalHarMembers(data, next, u.entries, ok /\ u.ok)
                  ELSE UnmarshalHarMembers(data, next, acc, ok /\ val.k = "null")
             ELSE UnmarshalHarMembers(data, next, acc, ok)

\* json.Unmarshal(data, &Har{}): the decoded Log.Entries, and whether it succeeded
UnmarshalHar(data) ==
    IF data = <<>> THEN [entries |-> <<>>, ok |-> FALSE]
    ELSE IF data[1].k = "null" THEN [entries |-> <<>>, ok |-> TRUE]
    ELSE IF data[1] = Delim("{") THEN UnmarshalHarMembers(data, 2, <<>>, TRUE)
    ELSE [entries |-> <<>>, ok |-> FALSE]

\* (*json.Decoder).More at offset pos
More(data, pos) == pos <= Len(data) /\ ~IsClose(data[pos])

\* (*json.Decoder).Decode(&entry) at offset pos
DecodeEntry(data, pos) ==
    IF pos > Len(data) THEN [pos |-> pos, entry |-> ZeroEntry, err |-> "io.EOF"]
    ELSE LET u == UnmarshalEntry(data, pos)
         IN  [pos |-> SkipValue(data, pos), entry |-> u.entry,
              err |-> IF u.ok THEN "nil" ELSE "UnmarshalTypeError"]

(***************************************************************************)
(* StreamingHar                                                            *)
(***************************************************************************)
\* findHarObjectStart: the offset after the `{` of log, or an error
RECURSIVE FindLogToken(_, _)
FindLogToken(data, pos) ==
    IF pos > Len(data) THEN [pos |-> pos, err |-> "io.EOF"]
    ELSE IF data[pos] = Str("log") THEN [pos |-> pos + 1, err |-> "nil"]
    ELSE FindLogToken(data, pos + 1)

findHarObjectStart(data) ==
    IF data = <<>> THEN [pos |-> 1, err |-> "io.EOF"]
    ELSE IF data[1] # Delim("{") THEN [pos |-> 2, err |-> "ErrExpectedObject"]
    ELSE LET f == FindLogToken(data, 2)
         IN  IF f.err # "nil" THEN f
             ELSE IF f.pos > Len(data) THEN [pos |-> f.pos, err |-> "io.EOF"]
             ELSE IF data[f.pos] # Delim("{")
             THEN [pos |-> f.pos + 1, err |-> "ErrExpectedObject"]
             ELSE [pos |-> f.pos + 1, err |-> "nil"]

\* parseHarBasicInfo: reads the members of log up to the `[` of entries
RECURSIVE parseHarBasicInfo(_, _)
parseHarBasicInfo(data, pos) ==
    IF pos > Len(data) THEN [pos |-> pos, err |-> "io.EOF"]
    ELSE IF data[pos] = Delim("}") THEN [pos |-> pos + 1, err |-> "nil"]
    ELSE IF data[pos].k # "str" THEN [pos |-> pos + 1, err |-> "ErrFieldName"]
    ELSE IF pos + 1 > Len(data) THEN [pos |-> pos + 1, err |-> "io.EOF"]
    ELSE LET val == data[pos + 1]
             next == SkipValue(data, pos + 1)
             field == data[pos].v
         IN  IF field = "entries"
             THEN IF val = Delim("[") THEN [pos |-> pos + 2, err |-> "nil"]
                  ELSE [pos |-> pos + 2, err |-> "ErrExpectedArray"]
             ELSE IF field = "version" /\ val.k \notin {"str", "null"}
             THEN [pos |-> next, err |-> "UnmarshalTypeError"]
             ELSE IF field = "creator" /\ ~(val = Delim("{") \/ val.k = "null")
             THEN [pos |-> next, err |-> "UnmarshalTypeError"]
             ELSE IF field = "pages" /\ ~(val = Delim("[") \/ val.k = "null")
             THEN [pos |-> next, err |-> "UnmarshalTypeError"]
             ELSE parseHarBasicInfo(data, next)

\* NewStreamingHarFromFile: the file stays open in h.file, h.data stays nil
NewStreamingHarFromFile(data) ==
    LET s == findHarObjectStart(data)
        b == parseHarBasicInfo(data, s.pos)
    IN  IF s.err # "nil" \/ b.err # "nil"
        THEN [ok |-> FALSE, har |-> [file |-> "closed", data |-> <<>>]]
        ELSE [ok |-> TRUE, har |-> [file |-> "open", data |-> <<>>]]

\* NewStreamingHarFromBytes: the whole document is decoded once, then kept in h.data
NewStreamingHarFromBytes(data) ==
    IF ~UnmarshalHar(data).ok
    THEN [ok |-> FALSE, har |-> [file |-> "nil", data |-> <<>>]]
    ELSE [ok |-> TRUE, har |-> [file |-> "nil", data |-> data]]

NewStreamingHar(src, data) ==
    IF src = "file" THEN NewStreamingHarFromFile(data) ELSE NewStreamingHarFromBytes(data)

\* (*StreamingHar).Close. h.file is "nil" when no file was opened, "open" while the
\* handle is open and "closed" once it was closed (the code then resets h.file)
HarCloseFile(h) == IF h.file = "open" THEN [h EXCEPT !.file = "closed"] ELSE h

\* (*StreamingHar).Entries: a decoder over h.data; the iterator's file is not set
EntriesIterator(h) ==
    [data |-> h.data, pos |-> 1, err |-> "nil", file |-> "nil",
     currentPos |-> 0, entry |-> ZeroEntry, closed |-> FALSE]

(***************************************************************************)
(* StreamingEntryIterator                                                  *)
(***************************************************************************)
\* Next, the scan of the first call: tokens up to "entries" followed by `[`
RECURSIVE ScanForEntries(_, _)
ScanForEntries(data, pos) ==
    IF pos > Len(data) THEN [pos |-> pos, err |-> "io.EOF"]
    ELSE IF data[pos] = Str("entries")
    THEN IF pos + 1 > Len(data) THEN [pos |-> pos + 1, err |-> "io.EOF"]
         ELSE IF data[pos + 1] = Delim("[") THEN [pos |-> pos + 2, err |-> "nil"]
         ELSE [pos |-> pos + 2, err |-> "ErrExpectedArray"]
    ELSE ScanForEntries(data, pos + 1)

\* Next, the early return
NextGuard_IgnoreErr(c) == c.closed
NextGuard_IgnoreClosed(c) == c.err # "nil"
NextGuard(c) == c.closed \/ c.err # "nil"

\* Next, the return when the array has no more elements: nothing is assigned
NextExhausted_ResetEntry(c) == [it |-> [c EXCEPT !.entry = ZeroEntry], ret |-> FALSE]
NextExhausted(c) == [it |-> c, ret |-> FALSE]

\* Next, from the scan to the decode of one element into the local `entry`:
\* done when the call returns false here
NextDecode(c) ==
    LET s == IF c.currentPos = 0 THEN ScanForEntries(c.data, c.pos)
             ELSE [pos |-> c.pos, err |-> "nil"]
    IN  IF s.err # "nil"
        THEN [it |-> [c EXCEPT !.pos = s.pos, !.err = s.err], done |-> TRUE,
              entry |-> ZeroEntry]
        ELSE IF ~More(c.data, s.pos)
        THEN [it |-> NextExhausted([c EXCEPT !.pos = s.pos]).it, done |-> TRUE,
              entry |-> ZeroEntry]
        ELSE LET d == DecodeEntry(c.data, s.pos)
             IN  IF d.err # "nil"
                 THEN [it |-> [c EXCEPT !.pos = d.pos, !.err = d.err], done |-> TRUE,
                       entry |-> ZeroEntry]
                 ELSE [it |-> [c EXCEPT !.pos = d.pos], done |-> FALSE,
                       entry |-> d.entry]

\* Next, the assignments ahead of `return true`
NextCommit(c, entry) == [c EXCEPT !.entry = entry, !.currentPos = @ + 1]

\* Next: the iterator after the call and the value returned
ItNext(c) ==
    IF NextGuard(c) THEN [it |-> c, ret |-> FALSE]
    ELSE LET d == NextDecode(c)
         IN  IF d.done THEN [it |-> d.it, ret |-> FALSE]
             ELSE [it |-> NextCommit(d.it, d.entry), ret |-> TRUE]

\* Entry
ItEntry(c) == c.entry

\* Err
ItErr(c) == IF c.err = "io.EOF" THEN "nil" ELSE c.err

\* Close: the iterator and the StreamingHar after the call and the value returned
ItClose(c, h) ==
    IF c.closed THEN [it |-> c, har |-> h, ret |-> "nil"]
    ELSE IF c.file # "nil"
    THEN [it |-> [c EXCEPT !.closed = TRUE],
          har |-> [h EXCEPT !.file = "closed"], ret |-> "nil"]
    ELSE [it |-> [c EXCEPT !.closed = TRUE], har |-> h, ret |-> "nil"]

\* GetAllEntries: Next until it returns false, then Err
RECURSIVE CollectEntries(_, _)
CollectEntries(c, acc) ==
    LET r == ItNext(c)
    IN  IF r.ret THEN CollectEntries(r.it, Append(acc, ItEntry(r.it)))
        ELSE [entries |-> acc, err |-> ItErr(r.it)]

GetAllEntries(h) == CollectEntries(EntriesIterator(h), <<>>)

(***************************************************************************)
(* LazyContent                                                             *)
(***************************************************************************)
Absent == [k |-> "absent", v |-> "", n |-> 0]

\* json.Unmarshal of one member into an int, a string, a *string field
\* (a *string is <<>> for nil, <<s>> for a pointer to s)
IntoInt(j, old) ==
    IF j.k = "num" THEN [val |-> j.n, ok |-> TRUE]
    ELSE [val |-> old, ok |-> j.k \in {"null", "absent"}]
IntoString(j, old) ==
    IF j.k = "str" THEN [val |-> j.v, ok |-> TRUE]
    ELSE [val |-> old, ok |-> j.k \in {"null", "absent"}]
IntoStringPtr(j, old) ==
    IF j.k = "str" THEN [val |-> <<j.v>>, ok |-> TRUE]
    ELSE IF j.k = "null" THEN [val |-> <<>>, ok |-> TRUE]
    ELSE [val |-> old, ok |-> j.k = "absent"]

\* The content objects of the documents: {"size":…, "mimeType":…, "text":…, "encoding":…}
ContentJSONs ==
    [size : {Num(3)},
     mimeType : {Str("text/plain"), Str("")},
     text : {Absent, Null, Str("hello"), Num(7)},
     encoding : {Absent, Str("base64"), Num(7)}]

NoRaw == [size |-> Absent, mimeType |-> Absent, text |-> Absent, encoding |-> Absent]

\* (*LazyContent).UnmarshalJSON on a fresh LazyContent: the raw span is kept,
\* size and mimeType are decoded, text and encoding are not
LazyUnmarshalJSON(raw) ==
    LET size == IntoInt(raw.size, 0)
        mime == IntoString(raw.mimeType, "")
    IN  IF ~(size.ok /\ mime.ok)
        THEN [ok |-> FALSE,
              lc |-> [Size |-> 0, MimeType |-> "", Text |-> <<>>, Encoding |-> <<>>,
                      rawData |-> raw, loaded |-> FALSE]]
        ELSE [ok |-> TRUE,
              lc |-> [Size |-> size.val, MimeType |-> mime.val, Text |-> <<>>,
                      Encoding |-> <<>>, rawData |-> raw, loaded |-> FALSE]]

\* Load: json.Unmarshal(lc.rawData, &full)
LoadDecode(c) ==
    LET text == IntoStringPtr(c.rawData.text, <<>>)
        enc == IntoStringPtr(c.rawData.encoding, <<>>)
    IN  [Text |-> text.val, Encoding |-> enc.val,
         err |-> IF text.ok /\ enc.ok THEN "nil" ELSE "UnmarshalTypeError"]

\* Load: lc.Text = full.Text; lc.Encoding = full.Encoding; lc.loaded = true
LoadStore_DropText(c, full) ==
    [c EXCEPT !.Encoding = full.Encoding, !.loaded = TRUE]
LoadStore(c, full) ==
    [c EXCEPT !.Text = full.Text, !.Encoding = full.Encoding, !.loaded = TRUE]

\* Load, run by one goroutine alone: the LazyContent after it and the error
LcLoad(c) ==
    IF c.loaded THEN [lc |-> c, err |-> "nil"]
    ELSE LET full == LoadDecode(c)
         IN  IF full.err # "nil" THEN [lc |-> c, err |-> full.err]
             ELSE [lc |-> LoadStore(c, full), err |-> "nil"]

Loaders == 1..NLoaders
Callers == 1..NCallers
NoFull == [Text |-> <<>>, Encoding |-> <<>>, err |-> "nil"]
NoRet == [err |-> "none", text |-> <<>>]

LazyIdle ==
    /\ lc = LazyUnmarshalJSON(NoRaw).lc
    /\ rw = [writer |-> 0, readers |-> {}]
    /\ ld = [t \in Loaders |-> [pc |-> "idle", op |-> "none", full |-> NoFull,
                                ret |-> NoRet]]
    /\ decodes = 0

\* A LazyContent as ParseHarWithLazyLoading leaves it, and K goroutines about to
\* force it
LazyInit ==
    /\ \E raw \in ContentJSONs :
          /\ LazyUnmarshalJSON(raw).ok
          /\ lc = LazyUnmarshalJSON(raw).lc
    /\ rw = [writer |-> 0, readers |-> {}]
    /\ ld = [t \in Loaders |-> [pc |-> "idle", op |-> "none", full |-> NoFull,
                                ret |-> NoRet]]
    /\ decodes = 0

Goto(t, pc) == [ld EXCEPT ![t].pc = pc]
Finish(t, err, text) == [ld EXCEPT ![t].pc = "done", ![t].ret = [err |-> err, text |-> text]]

CallGetText(t) ==
    /\ ld[t].pc = "idle"
    /\ ld' = [ld EXCEPT ![t].pc = "gt_rlock", ![t].op = "GetText"]
    /\ UNCHANGED <<lc, rw, decodes, cursorVars, callerVars, convVars>>

\* lc.loadMutex.RLock()
GetTextRLock(t) ==
    /\ ld[t].pc = "gt_rlock"
    /\ rw.writer = 0
    /\ rw' = [rw EXCEPT !.readers = @ \cup {t}]
    /\ ld' = Goto(t, "gt_check")
    /\ UNCHANGED <<lc, decodes, cursorVars, callerVars, convVars>>

\* if lc.loaded { text := lc.Text; RUnlock; return text, nil }; RUnlock; Load()
GetTextCheck(t) ==
    /\ ld[t].pc = "gt_check"
    /\ rw' = [rw EXCEPT !.readers = @ \ {t}]
    /\ ld' = IF lc.loaded THEN Finish(t, "nil", lc.Text) ELSE Goto(t, "ld_lock")
    /\ UNCHANGED <<lc, decodes, cursorVars, callerVars, convVars>>

CallLoad(t) ==
    /\ ld[t].pc = "idle"
    /\ ld' = [ld EXCEPT ![t].pc = "ld_lock", ![t].op = "Load"]
    /\ UNCHANGED <<lc, rw, decodes, cursorVars, callerVars, convVars>>

\* lc.loadMutex.Lock()
LoadLock(t) ==
    /\ ld[t].pc = "ld_lock"
    /\ rw.writer = 0
    /\ rw.readers = {}
    /\ rw' = [rw EXCEPT !.writer = t]
    /\ ld' = Goto(t, "ld_decode")
    /\ UNCHANGED <<lc, decodes, cursorVars, callerVars, convVars>>

\* The return of Load to its caller: Load itself, or GetText, which goes on to
\* `return lc.Text, nil` when Load returned nil
LoadReturn(t, err) ==
    IF ld[t].op = "Load" THEN Finish(t, err, <<>>)
    ELSE IF err # "nil" THEN Finish(t, err, <<>>)
    ELSE Goto(t, "gt_ret")

\* if lc.loaded { return nil }; json.Unmarshal(lc.rawData, &full), and the
\* return of the error (the deferred Unlock runs at each return)
LoadUnmarshal(t) ==
    /\ ld[t].pc = "ld_decode"
    /\ IF lc.loaded
       THEN /\ rw' = [rw EXCEPT !.writer = 0]
            /\ ld' = LoadReturn(t, "nil")
            /\ UNCHANGED <<decodes, cursorVars, callerVars, convVars>>
       ELSE LET full == LoadDecode(lc)
            IN  /\ decodes' = decodes + 1
                /\ IF full.err # "nil"
                   THEN /\ rw' = [rw EXCEPT !.writer = 0]
                        /\ ld' = LoadReturn(t, full.err)
                   ELSE /\ rw' = rw
                        /\ ld' = [ld EXCEPT ![t].pc = "ld_store", ![t].full = full]
    /\ UNCHANGED <<lc, cursorVars, callerVars, convVars>>

\* lc.Text = full.Text; lc.Encoding = full.Encoding; lc.loaded = true; return nil
LoadAssign(t) ==
    /\ ld[t].pc = "ld_store"
    /\ lc' = LoadStore(lc, ld[t].full)
    /\ rw' = [rw EXCEPT !.writer = 0]
    /\ ld' = LoadReturn(t, "nil")
    /\ UNCHANGED <<decodes, cursorVars, callerVars, convVars>>

\* GetText: return lc.Text, nil (read without the lock)
GetTextReturn(t) ==
    /\ ld[t].pc = "gt_ret"
    /\ ld' = Finish(t, "nil", lc.Text)
    /\ UNCHANGED <<lc, rw, decodes, cursorVars, callerVars, convVars>>

LazyNext ==
    \E t \in Loaders :
        \/ CallGetText(t)
        \/ GetTextRLock(t)
        \/ GetTextCheck(t)
        \/ CallLoad(t)
        \/ LoadLock(t)
        \/ LoadUnmarshal(t)
        \/ LoadAssign(t)
        \/ GetTextReturn(t)

CursorIdle ==
    /\ doc = <<>>
    /\ source = "bytes"
    /\ har = [file |-> "nil", data |-> <<>>]
    /\ it = EntriesIterator(har)
    /\ obs = [op |-> "none", nextRet |-> "none", yielded |-> <<>>, nexts |-> 0,
              falseAt |-> 0, closes |-> 0, closeRet |-> "none"]
    /\ thr = [t \in Callers |->
                [pc |-> "idle", op |-> "none", entry |-> ZeroEntry, ret |-> "none",
                 afterClose |-> FALSE, calls |-> 0]]
    /\ writer = [closed |-> 0, err |-> 0]


(***************************************************************************)
(* ParseHar, ParseHarWithLazyLoading and LazyHar.ToStandardHar.            *)
(* A document is {"log": {"version", "creator": {"name", "version"},       *)
(* "entries": […]}} with log an object, or has a log member that is        *)
(* absent, null or a number. The entries of an object log are              *)
(* [{"request": {…}, "response": {"status", "content"}, …}]; the members of *)
(* an entry that are not shown (startedDateTime, the request's url and     *)
(* httpVersion, the response's httpVersion, cookies, the receive timing)   *)
(* are present and valid in every document. Numbers are whole.             *)
(***************************************************************************)
\* A "headers" or "queryString" member: absent, or an array of {"name", "value"}
NoList == [k |-> "absent", items |-> <<>>]
NameValues(items) == [k |-> "arr", items |-> items]
NV(name, value) == [name |-> name, value |-> value]

\* The members of an entry besides response.status and response.content:
\* request.method, request.url, request.headers, request.queryString,
\* timings.ssl, timings.wait, serverIPAddress
PlainRest ==
    [method |-> Str("GET"), url |-> Str("http://a"), headers |-> NameValues(<<>>),
     queryString |-> NameValues(<<>>), ssl |-> Num(5), wait |-> Num(1),
     serverIPAddress |-> Absent]

\* The bytes of the request URLs of the documents
UrlBytes ==
    [str \in {"", "http://a", "http://a/b c", "a", "%"} |->
        CASE str = "" -> <<>>
          [] str = "http://a" -> <<"h", "t", "t", "p", ":", "/", "/", "a">>
          [] str = "http://a/b c" ->
                <<"h", "t", "t", "p", ":", "/", "/", "a", "/", "b", " ", "c">>
          [] str = "a" -> <<"a">>
          [] str = "%" -> <<"%">>]

\* strings.Contains
Contains(str, substr) ==
    \E j \in 0..(Len(str) - Len(substr)) : SubSeq(str, j + 1, j + Len(substr)) = substr

\* url.Parse, whether it returns an error: of the URLs above it rejects the one
\* with a % that no two hexadecimal digits follow
urlParseFails(str) ==
    \E j \in 1..Len(str) :
        /\ str[j] = "%"
        /\ ~(j + 2 <= Len(str) /\ {str[j + 1], str[j + 2]} \subseteq {"0", "1", "a", "b"})

ContentMembers ==
    {[k |-> "absent", raw |-> NoRaw], [k |-> "null", raw |-> NoRaw]}
        \cup {[k |-> "obj", raw |-> r] : r \in ContentJSONs}

EntryDocs == [status : {Num(200), Num(0)}, content : ContentMembers, rest : {PlainRest}]

EntryDocSeqs == UNION {[1..n -> EntryDocs] : n \in 0..MaxDocEntries}

HarDocs ==
    [log : {"obj"}, version : {Str("1.2")}, creatorName : {Str("har")},
     creatorVersion : {Str("1")},
     entries : {[k |-> "arr", items |-> e] : e \in EntryDocSeqs}]
    \cup
    [log : {"obj"}, version : {Str("1.2"), Str("2.0"), Absent},
     creatorName : {Str("har"), Absent}, creatorVersion : {Str("1")},
     entries : {[k |-> "absent", items |-> <<>>], [k |-> "arr", items |-> <<>>]}]

ZeroContent == [Size |-> 0, MimeType |-> "", Text |-> "", Encoding |-> ""]
NilHar == [isNil |-> TRUE, Version |-> "", CreatorName |-> "", CreatorVersion |-> "",
           Entries |-> [isNil |-> TRUE, items |-> <<>>]]

\* json.Unmarshal of a content member into Content
UnmarshalContent(c) ==
    IF c.k # "obj" THEN [val |-> ZeroContent, ok |-> TRUE]
    ELSE LET size == IntoInt(c.raw.size, 0)
             mime == IntoString(c.raw.mimeType, "")
             text == IntoString(c.raw.text, "")
             enc == IntoString(c.raw.encoding, "")
         IN  [val |-> [Size |-> size.val, MimeType |-> mime.val, Text |-> text.val,
                       Encoding |-> enc.val],
              ok |-> size.ok /\ mime.ok /\ text.ok /\ enc.ok]

\* json.Unmarshal of a content member into *LazyContent (<<>> is the nil pointer)
UnmarshalLazyContent(c) ==
    IF c.k # "obj" THEN [val |-> <<>>, ok |-> TRUE]
    ELSE [val |-> <<LazyUnmarshalJSON(c.raw).lc>>, ok |-> LazyUnmarshalJSON(c.raw).ok]

\* json.Unmarshal of a "headers"/"queryString" member into []Headers: an absent
\* or null member leaves the slice nil
IntoHeaders(j) ==
    IF j.k = "arr" THEN [isNil |-> FALSE, items |-> [i \in 1..Len(j.items) |->
                            [Name |-> j.items[i].name, Value |-> j.items[i].value]]]
    ELSE [isNil |-> TRUE, items |-> <<>>]

\* json.Unmarshal of one entry object into Entries: every member is decoded,
\* a member of the wrong type keeps the zero value and makes the call fail
UnmarshalEntriesItem(e) ==
    LET status == IntoInt(e.status, 0)
        content == UnmarshalContent(e.content)
        method == IntoString(e.rest.method, "")
        url == IntoString(e.rest.url, "")
        ssl == IntoInt(e.rest.ssl, 0)
        wait == IntoInt(e.rest.wait, 0)
        ip == IntoString(e.rest.serverIPAddress, "")
    IN  [val |-> [Status |-> status.val, Content |-> content.val, Method |-> method.val,
                  URL |-> url.val,
                  Headers |-> IntoHeaders(e.rest.headers),
                  QueryString |-> IntoHeaders(e.rest.queryString),
                  Ssl |-> ssl.val, Wait |-> wait.val, ServerIPAddress |-> ip.val],
         ok |-> status.ok /\ content.ok /\ method.ok /\ url.ok /\ ssl.ok /\ wait.ok
                /\ ip.ok]

\* … and into LazyEntries, which differs in response.content only
UnmarshalLazyEntriesItem(e) ==
    [val |-> [UnmarshalEntriesItem(e).val EXCEPT
                 !.Content = UnmarshalLazyContent(e.content).val],
     ok |-> /\ UnmarshalEntriesItem([e EXCEPT !.content = [k |-> "absent", raw |-> NoRaw]]).ok
            /\ UnmarshalLazyContent(e.content).ok]

\* json.Unmarshal of the entries into []Entries and into []LazyEntries
UnmarshalEntries(e) ==
    IF e.k # "arr" THEN [val |-> [isNil |-> TRUE, items |-> <<>>],
                         ok |-> e.k \in {"absent", "null"}]
    ELSE [val |-> [isNil |-> FALSE,
                   items |-> [i \in 1..Len(e.items) |-> UnmarshalEntriesItem(e.items[i]).val]],
          ok |-> \A i \in 1..Len(e.items) : UnmarshalEntriesItem(e.items[i]).ok]

UnmarshalLazyEntries(e) ==
    IF e.k # "arr" THEN [val |-> [isNil |-> TRUE, items |-> <<>>],
                         ok |-> e.k \in {"absent", "null"}]
    ELSE [val |-> [isNil |-> FALSE,
                   items |-> [i \in 1..Len(e.items) |->
                                 UnmarshalLazyEntriesItem(e.items[i]).val]],
          ok |-> \A i \in 1..Len(e.items) : UnmarshalLazyEntriesItem(e.items[i]).ok]

HarSpecVersions == {"1.1", "1.2", "1.3"}

\* validateHeaders, for the headers from index j on
RECURSIVE validateHeaders(_, _, _)
validateHeaders(headers, j, i) ==
    IF j > Len(headers) THEN <<>>
    ELSE (IF headers[j].Name = "" THEN <<[path |-> "request.headers.name", i |-> i]>>
          ELSE <<>>)
         \o validateHeaders(headers, j + 1, i)

\* validateRequest, validateResponse with validateContent, validateTimings:
\* the violations of entry i
validateRequest(e, i) ==
    (IF e.Method = "" THEN <<[path |-> "request.method", i |-> i]>> ELSE <<>>)
    \o (IF e.URL = "" \/ urlParseFails(UrlBytes[e.URL])
        THEN <<[path |-> "request.url", i |-> i]>> ELSE <<>>)
    \o validateHeaders(e.Headers.items, 1, i)
validateResponse(e, i) ==
    (IF e.Status <= 0 THEN <<[path |-> "response.status", i |-> i]>> ELSE <<>>)
    \o (IF e.Content.MimeType = ""
        THEN <<[path |-> "response.content.mimeType", i |-> i]>> ELSE <<>>)
validateTimings(e, i) ==
    IF e.Wait < 0 THEN <<[path |-> "timings.wait", i |-> i]>> ELSE <<>>

\* validateEntries, for the entries from index i on: the paths of the violations
RECURSIVE validateEntries(_, _)
validateEntries(items, i) ==
    IF i > Len(items) THEN <<>>
    ELSE validateRequest(items[i], i) \o validateResponse(items[i], i)
         \o validateTimings(items[i], i) \o validateEntries(items, i + 1)

\* validateBasicStructure: the partial errors it adds
validateBasicStructure_NoEntriesCheck(h) ==
    (IF h.Version = "" THEN <<[path |-> "log.version", i |-> 0]>> ELSE <<>>)
    \o (IF h.CreatorName = "" THEN <<[path |-> "log.creator.name", i |-> 0]>> ELSE <<>>)
    \o (IF h.CreatorVersion = "" THEN <<[path |-> "log.creator.version", i |-> 0]>>
        ELSE <<>>)
validateBasicStructure(h) ==
    (IF h.Version = "" THEN <<[path |-> "log.version", i |-> 0]>> ELSE <<>>)
    \o (IF h.CreatorName = "" THEN <<[path |-> "log.creator.name", i |-> 0]>> ELSE <<>>)
    \o (IF h.CreatorVersion = "" THEN <<[path |-> "log.creator.version", i |-> 0]>>
        ELSE <<>>)
    \o (IF h.Entries.isNil THEN <<[path |-> "log.entries", i |-> 0]>> ELSE <<>>)

\* ValidateHarFile: the partial errors of the returned error (none: nil)
ValidateHarFile(h) ==
    IF validateBasicStructure(h) # <<>> THEN validateBasicStructure(h)
    ELSE (IF h.Version \in HarSpecVersions THEN <<>>
          ELSE <<[path |-> "log.version", i |-> 0]>>)
         \o validateEntries(h.Entries.items, 1)

\* json.Unmarshal(harFileBytes, har) for Har
UnmarshalHarDoc(d) ==
    LET version == IntoString(d.version, "")
        name == IntoString(d.creatorName, "")
        cver == IntoString(d.creatorVersion, "")
        entries == UnmarshalEntries(d.entries)
    IN  IF d.log # "obj"
        THEN [val |-> [NilHar EXCEPT !.isNil = FALSE], ok |-> d.log \in {"absent", "null"}]
        ELSE [val |-> [isNil |-> FALSE, Version |-> version.val, CreatorName |-> name.val,
                       CreatorVersion |-> cver.val, Entries |-> entries.val],
              ok |-> version.ok /\ name.ok /\ cver.ok /\ entries.ok]

\* ParseHar
ParseHar(d) ==
    LET u == UnmarshalHarDoc(d)
    IN  IF ~u.ok THEN [har |-> NilHar, err |-> "JSONParse", errs |-> <<>>]
        ELSE IF ValidateHarFile(u.val) # <<>>
        THEN [har |-> NilHar, err |-> "Validation", errs |-> ValidateHarFile(u.val)]
        ELSE [har |-> u.val, err |-> "nil", errs |-> <<>>]

\* A byte buffer: whether it is empty, its first and its last byte once
\* strings.TrimSpace has run, and what json.Unmarshal makes of it: an object
\* (the document d it holds), an array, or no JSON value
ObjectBuf == [empty |-> FALSE, first |-> "{", last |-> "}", json |-> "object"]

\* isJSONContent
isJSONContent_BracesOnly(b) == b.first = "{" /\ b.last = "}"
isJSONContent(b) ==
    (b.first = "{" /\ b.last = "}") \/ (b.first = "[" /\ b.last = "]")

\* ParseHar on the buffer b holding the document d: the two checks ahead of
\* json.Unmarshal, the json.Unmarshal of a buffer that holds no object, then
\* ParseHar as above
ParseHarBytes(b, d) ==
    IF b.empty THEN [har |-> NilHar, err |-> "InvalidFormat", errs |-> <<>>]
    ELSE IF ~isJSONContent(b) THEN [har |-> NilHar, err |-> "InvalidFormat", errs |-> <<>>]
    ELSE IF b.json # "object" THEN [har |-> NilHar, err |-> "JSONParse", errs |-> <<>>]
    ELSE ParseHar(d)

\* ParseHarWithLazyLoading on the buffer b holding the document d: there is no
\* check ahead of json.Unmarshal, which fails on a buffer that holds no object
ParseHarWithLazyLoading(b, d) ==
    LET version == IntoString(d.version, "")
        name == IntoString(d.creatorName, "")
        cver == IntoString(d.creatorVersion, "")
        entries == UnmarshalLazyEntries(d.entries)
    IN  IF b.empty \/ b.json # "object" THEN [har |-> NilHar, err |-> "JSONParse"]
        ELSE IF d.log # "obj"
        THEN IF d.log \in {"absent", "null"}
             THEN [har |-> [NilHar EXCEPT !.isNil = FALSE], err |-> "nil"]
             ELSE [har |-> NilHar, err |-> "JSONParse"]
        ELSE IF ~(version.ok /\ name.ok /\ cver.ok /\ entries.ok)
        THEN [har |-> NilHar, err |-> "JSONParse"]
        ELSE [har |-> [isNil |-> FALSE, Version |-> version.val,
                       CreatorName |-> name.val, CreatorVersion |-> cver.val,
                       Entries |-> entries.val],
              err |-> "nil"]

\* ToStandardHar, the Content of one converted entry, its LazyContent loaded
StandardContent(c) ==
    [Size |-> c.Size, MimeType |-> c.MimeType, Text |-> "", Encoding |-> ""]

\* ToStandardHar, the loop over lh.Log.Entries from index i on: acc are the
\* converted entries, items the LazyEntries (whose LazyContent Load changes)
RECURSIVE ConvertEntries(_, _, _)
ConvertEntries(items, i, acc) ==
    IF i > Len(items) THEN [entries |-> acc, items |-> items, err |-> "nil"]
    ELSE IF items[i].Content = <<>>
    THEN ConvertEntries(items, i + 1,
                        Append(acc, [items[i] EXCEPT !.Content = ZeroContent]))
    ELSE LET l == LcLoad(items[i].Content[1])
             loaded == [items EXCEPT ![i].Content = <<l.lc>>]
         IN  IF l.err # "nil" THEN [entries |-> acc, items |-> loaded, err |-> "JSONParse"]
             ELSE ConvertEntries(loaded, i + 1,
                                 Append(acc, [items[i] EXCEPT
                                                 !.Content = StandardContent(l.lc)]))

\* (*LazyHar).ToStandardHar: the Har, the error, and the LazyHar after the call
ToStandardHar(lh) ==
    LET c == ConvertEntries(lh.Entries.items, 1, <<>>)
        after == [lh EXCEPT !.Entries.items = c.items]
    IN  IF c.err # "nil" THEN [har |-> NilHar, err |-> c.err, lazy |-> after]
        ELSE [har |-> [isNil |-> FALSE, Version |-> lh.Version,
                       CreatorName |-> lh.CreatorName,
                       CreatorVersion |-> lh.CreatorVersion,
                       Entries |-> [isNil |-> FALSE, items |-> c.entries]],
              err |-> "nil", lazy |-> after]

\* (*LazyHar).ToStandard: ToStandardHar with the error dropped
LazyHarToStandard(lh) == ToStandardHar(lh).har

NotRun == [state |-> "none", har |-> NilHar, err |-> "nil", errs |-> <<>>]

\* Nothing has been given to ParseHarOptimized, DetectHarVersion or
\* ParseHarWithOptions
NilOptimizedHar == [isNil |-> TRUE, Version |-> "", CreatorName |-> "",
                    CreatorVersion |-> "", Entries |-> <<>>]
DefaultParseOptions ==
    [Lenient |-> FALSE, SkipValidation |-> FALSE, CollectWarnings |-> FALSE,
     MaxWarnings |-> 100]

\* options.go: defaultOptions, as far as Parse reads them
defaultOptions ==
    [lenient |-> FALSE, skipValidation |-> FALSE, collectWarnings |-> FALSE,
     maxWarnings |-> 100, useMemoryOptimized |-> FALSE, useLazyLoading |-> FALSE,
     useStreaming |-> FALSE]

\* No provider: the nil interface value
NoProvider == [kind |-> "none", isNilInterface |-> TRUE, har |-> NilHar]

\* Nothing has been given to Parse, NewStreamingParser, ToStandardHar or
\* ParseHarWithWarnings
ProvIdle ==
    /\ buf = ObjectBuf
    /\ pcall = defaultOptions
    /\ prov = [state |-> "none", provider |-> NoProvider, err |-> "nil"]
    /\ access = [state |-> "none", got |-> <<>>]
    /\ strm = [state |-> "none", isNil |-> TRUE, err |-> "nil"]
    /\ stdh = NotRun
    /\ warn = [state |-> "none", isNil |-> TRUE, har |-> NilHar, warnings |-> <<>>,
               err |-> "nil"]

OthersIdle ==
    /\ ProvIdle
    /\ opt = [state |-> "none", har |-> NilOptimizedHar, err |-> "nil"]
    /\ std = NotRun
    /\ ver = [isNil |-> TRUE, Version |-> <<>>]
    /\ det = [state |-> "none", version |-> <<>>, again |-> <<>>]
    /\ popts = DefaultParseOptions
    /\ pres = NotRun

NoDoc == [log |-> "obj", version |-> Absent, creatorName |-> Absent, creatorVersion |-> Absent,
          entries |-> [k |-> "absent", items |-> <<>>]]

ConvIdle ==
    /\ cdoc = NoDoc
    /\ strict = NotRun
    /\ lazy = NotRun
    /\ conv = NotRun
    /\ OthersIdle

ConvInit ==
    /\ cdoc \in HarDocs
    /\ strict = NotRun
    /\ lazy = NotRun
    /\ conv = NotRun
    /\ OthersIdle

DoParseHar ==
    /\ strict.state = "none"
    /\ LET r == ParseHarBytes(buf, cdoc)
       IN  strict' = [state |-> "done", har |-> r.har, err |-> r.err, errs |-> r.errs]
    /\ UNCHANGED <<cdoc, lazy, conv, optVars, verVars, parseVars,
                   cursorVars, callerVars, lazyVars, provVars>>

DoParseHarWithLazyLoading ==
    /\ lazy.state = "none"
    /\ LET r == ParseHarWithLazyLoading(buf, cdoc)
       IN  lazy' = [state |-> "done", har |-> r.har, err |-> r.err, errs |-> <<>>]
    /\ UNCHANGED <<cdoc, strict, conv, optVars, verVars, parseVars,
                   cursorVars, callerVars, lazyVars, provVars>>

DoToStandardHar ==
    /\ lazy.state = "done"
    /\ lazy.err = "nil"
    /\ conv.state = "none"
    /\ LET r == ToStandardHar(lazy.har)
       IN  /\ conv' = [state |-> "done", har |-> r.har, err |-> r.err, errs |-> <<>>]
           /\ lazy' = [lazy EXCEPT !.har = r.lazy]
    /\ UNCHANGED <<cdoc, strict, optVars, verVars, parseVars,
                   cursorVars, callerVars, lazyVars, provVars>>

ConvNext == DoParseHar \/ DoParseHarWithLazyLoading \/ DoToStandardHar

(***************************************************************************)
(* The compact representation: ParseHarOptimized, ToOptimizedHar and       *)
(* OptimizedHar.ToStandard                                                 *)
(***************************************************************************)
MaxOptEntries == 1   \* longest log.entries of the documents given to ParseHarOptimized

\* HTTPMethod and its two tables
MethodUnknown == 0
methodToString ==
    <<"GET", "POST", "PUT", "DELETE", "HEAD", "OPTIONS", "PATCH", "CONNECT", "TRACE">>

\* strings.ToUpper, on the method strings of the documents
ToUpper(str) == IF str = "get" THEN "GET" ELSE str

\* ParseMethod: stringToMethod[strings.ToUpper(method)], or MethodUnknown
ParseMethod(method) ==
    IF \E m \in DOMAIN methodToString : methodToString[m] = ToUpper(method)
    THEN CHOOSE m \in DOMAIN methodToString : methodToString[m] = ToUpper(method)
    ELSE MethodUnknown

\* (*OptimizedRequest).GetMethod
GetMethod(r) ==
    IF r.Method \in DOMAIN methodToString THEN methodToString[r.Method] ELSE "UNKNOWN"

\* for _, header := range headers { m[header.Name] = header.Value }: a later
\* header replaces an earlier one of the same name
RECURSIVE HeaderMap(_, _, _)
HeaderMap(headers, j, m) ==
    IF j > Len(headers) THEN m
    ELSE HeaderMap(headers, j + 1,
                   [n \in DOMAIN m \cup {headers[j].Name} |->
                       IF n = headers[j].Name THEN headers[j].Value ELSE m[n]])

\* if v != 0 { p = &v }, if s != "" { p = &s }: <<>> is the nil pointer
PtrUnlessZero(v) == IF v # 0 THEN <<v>> ELSE <<>>
PtrUnlessEmpty(str) == IF str # "" THEN <<str>> ELSE <<>>

\* convertToOptimizedEntry
convertToOptimizedEntry(entry) ==
    [Method |-> ParseMethod(entry.Method),
     URL |-> entry.URL,
     Headers |-> HeaderMap(entry.Headers.items, 1, <<>>),
     QueryString |-> <<>>,
     Status |-> entry.Status,
     Content |-> IF entry.Content.Size # 0 \/ entry.Content.MimeType # ""
                 THEN <<[Size |-> entry.Content.Size, MimeType |-> entry.Content.MimeType,
                         Text |-> <<>>, Encoding |-> <<>>]>>
                 ELSE <<>>,
     Ssl |-> PtrUnlessZero(entry.Ssl),
     Wait |-> PtrUnlessZero(entry.Wait),
     ServerIP |-> PtrUnlessEmpty(entry.ServerIPAddress)]

\* ToOptimizedHar
ToOptimizedHar(standardHar) ==
    [isNil |-> FALSE, Version |-> standardHar.Version,
     CreatorName |-> standardHar.CreatorName,
     CreatorVersion |-> standardHar.CreatorVersion,
     Entries |-> [i \in 1..Len(standardHar.Entries.items) |->
                     convertToOptimizedEntry(standardHar.Entries.items[i])]]

\* ParseHarOptimized, from the return of ParseHar on: an error of ParseHar is
\* wrapped by fmt.Errorf("...%w", err), whose type is *fmt.wrapError
WrapOrConvert(r) ==
    IF r.err # "nil" THEN [har |-> NilOptimizedHar, err |-> "fmt.wrapError"]
    ELSE [har |-> ToOptimizedHar(r.har), err |-> "nil"]

\* ParseHarOptimized on the buffer b holding the document d
ParseHarOptimized(b, d) == WrapOrConvert(ParseHarBytes(b, d))

\* (*OptimizedTimings).GetSSL, GetWait
GetSSL(t) == IF t.Ssl # <<>> THEN t.Ssl[1] ELSE -1
GetWait(t) == IF t.Wait # <<>> THEN t.Wait[1] ELSE -1

\* for name, value := range m: the orders in which a map may be walked
MapOrders(m) ==
    {[j \in 1..Cardinality(DOMAIN m) |-> [Name |-> o[j], Value |-> m[o[j]]]] :
        o \in {p \in [1..Cardinality(DOMAIN m) -> DOMAIN m] :
                  \A a, b \in 1..Cardinality(DOMAIN m) : p[a] = p[b] => a = b}}

\* (*OptimizedContent).ToStandard
OptimizedContentToStandard(c) ==
    [Size |-> c.Size, MimeType |-> c.MimeType, Text |-> "", Encoding |-> ""]

\* (*OptimizedEntries).ToStandard with (*OptimizedRequest).ToStandard,
\* (*OptimizedResponse).ToStandard and (*OptimizedTimings).ToStandard; headers is
\* the order in which the walk over e.Request.Headers appended them
OptimizedEntriesToStandard(e, headers) ==
    [Method |-> GetMethod(e),
     URL |-> e.URL,
     Headers |-> [isNil |-> headers = <<>>, items |-> headers],
     QueryString |-> [isNil |-> TRUE, items |-> <<>>],
     Status |-> e.Status,
     Content |-> IF e.Content # <<>> THEN OptimizedContentToStandard(e.Content[1])
                 ELSE ZeroContent,
     Ssl |-> GetSSL(e),
     Wait |-> GetWait(e),
     ServerIPAddress |-> ""]

\* (*OptimizedHar).ToStandard; orders[i] is the walk over entry i's headers
OptimizedHarToStandard(h, orders) ==
    [isNil |-> FALSE, Version |-> h.Version, CreatorName |-> h.CreatorName,
     CreatorVersion |-> h.CreatorVersion,
     Entries |-> [isNil |-> FALSE,
                  items |-> [i \in 1..Len(h.Entries) |->
                                OptimizedEntriesToStandard(h.Entries[i], orders[i])]]]

\* convertToStandardEntry; headers is the order in which the walk over
\* entry.Request.Headers appended them to the slice made for them
convertToStandardEntry(entry, headers) ==
    [Method |-> IF entry.Method \in DOMAIN methodToString
                THEN methodToString[entry.Method] ELSE "UNKNOWN",
     URL |-> entry.URL,
     Headers |-> [isNil |-> FALSE, items |-> headers],
     QueryString |-> [isNil |-> TRUE, items |-> <<>>],
     Status |-> entry.Status,
     Content |-> IF entry.Content # <<>>
                 THEN [Size |-> entry.Content[1].Size,
                       MimeType |-> entry.Content[1].MimeType,
                       Text |-> "", Encoding |-> ""]
                 ELSE ZeroContent,
     Ssl |-> IF entry.Ssl # <<>> THEN entry.Ssl[1] ELSE 0,
     Wait |-> IF entry.Wait # <<>> THEN entry.Wait[1] ELSE 0,
     ServerIPAddress |-> IF entry.ServerIP # <<>> THEN entry.ServerIP[1] ELSE ""]

\* (*OptimizedHar).ToStandardHar; orders[i] is the walk over entry i's headers
OptimizedHarToStandardHar(oh, orders) ==
    [isNil |-> FALSE, Version |-> oh.Version, CreatorName |-> oh.CreatorName,
     CreatorVersion |-> oh.CreatorVersion,
     Entries |-> [isNil |-> FALSE,
                  items |-> [i \in 1..Len(oh.Entries) |->
                                convertToStandardEntry(oh.Entries[i], orders[i])]]]

\* The documents: valid archives whose entries vary in the request and in the
\* timings
OptContents ==
    {[k |-> "obj", raw |-> r] :
        r \in [size : {Num(3)}, mimeType : {Str("text/plain")},
               text : {Absent, Str("hello")}, encoding : {Absent}]}
OptHeaders ==
    {NameValues(<<>>), NameValues(<<NV("a", "1")>>),
     NameValues(<<NV("a", "1"), NV("b", "2")>>),
     NameValues(<<NV("a", "1"), NV("a", "2")>>)}
OptRests ==
    [method : {Str("GET"), Str("get"), Str("PURGE")}, url : {Str("http://a")},
     headers : OptHeaders,
     queryString : {NoList, NameValues(<<NV("q", "1")>>)},
     ssl : {Num(5)}, wait : {Num(1)}, serverIPAddress : {Absent, Str("10.0.0.1")}]
    \cup
    [method : {Str("GET")}, url : {Str("http://a")}, headers : {NameValues(<<>>)},
     queryString : {NameValues(<<>>)},
     ssl : {Absent, Num(0), Num(5)}, wait : {Absent, Num(0), Num(1)},
     serverIPAddress : {Absent}]
OptEntryDocs == [status : {Num(200)}, content : OptContents, rest : OptRests]
OptDocs ==
    [log : {"obj"}, version : {Str("1.2")}, creatorName : {Str("har")}, creatorVersion : {Str("1")},
     entries : {[k |-> "arr", items |-> e] :
                   e \in UNION {[1..n -> OptEntryDocs] : n \in 0..MaxOptEntries}}]

OptInit ==
    /\ cdoc \in OptDocs
    /\ strict = NotRun
    /\ lazy = NotRun
    /\ conv = NotRun
    /\ OthersIdle

DoParseHarOptimized ==
    /\ opt.state = "none"
    /\ LET r == ParseHarOptimized(buf, cdoc)
       IN  opt' = [state |-> "done", har |-> r.har, err |-> r.err]
    /\ UNCHANGED <<cdoc, strict, lazy, conv, std, verVars, parseVars,
                   cursorVars, callerVars, lazyVars, provVars>>

DoOptimizedToStandard ==
    /\ opt.state = "done"
    /\ opt.err = "nil"
    /\ std.state = "none"
    /\ \E orders \in [1..Len(opt.har.Entries) ->
                         UNION {MapOrders(opt.har.Entries[i].Headers) :
                                   i \in 1..Len(opt.har.Entries)}] :
          /\ \A i \in 1..Len(opt.har.Entries) :
                orders[i] \in MapOrders(opt.har.Entries[i].Headers)
          /\ std' = [state |-> "done", har |-> OptimizedHarToStandard(opt.har, orders),
                     err |-> "nil", errs |-> <<>>]
    /\ UNCHANGED <<cdoc, strict, lazy, conv, opt, verVars, parseVars,
                   cursorVars, callerVars, lazyVars, provVars>>

DoOptimizedToStandardHar ==
    /\ opt.state = "done"
    /\ opt.err = "nil"
    /\ stdh.state = "none"
    /\ \E orders \in [1..Len(opt.har.Entries) ->
                         UNION {MapOrders(opt.har.Entries[i].Headers) :
                                   i \in 1..Len(opt.har.Entries)}] :
          /\ \A i \in 1..Len(opt.har.Entries) :
                orders[i] \in MapOrders(opt.har.Entries[i].Headers)
          /\ stdh' = [state |-> "done", har |-> OptimizedHarToStandardHar(opt.har, orders),
                      err |-> "nil", errs |-> <<>>]
    /\ UNCHANGED <<cdoc, strict, lazy, conv, optVars, verVars, parseVars,
                   cursorVars, callerVars, lazyVars, buf, pcall, prov, access, strm, warn>>

OptNext ==
    \/ DoParseHar
    \/ DoParseHarWithLazyLoading
    \/ DoParseHarOptimized
    \/ DoOptimizedToStandard
    \/ DoOptimizedToStandardHar

(***************************************************************************)
(* DetectHarVersion. A version string is the sequence of its bytes.        *)
(***************************************************************************)
MaxVersionLen == 5   \* longest log.version given to DetectHarVersion

VersionBytes == {"1", "2", "3", "9", ".", " "}

\* The bytes of the version strings of the documents
Bytes ==
    [str \in {"", "1", "1.1", "1.2", "1.3", "1.2.3", "2.0"} |->
        CASE str = "" -> <<>>
          [] str = "1" -> <<"1">>
          [] str = "1.1" -> <<"1", ".", "1">>
          [] str = "1.2" -> <<"1", ".", "2">>
          [] str = "1.3" -> <<"1", ".", "3">>
          [] str = "1.2.3" -> <<"1", ".", "2", ".", "3">>
          [] str = "2.0" -> <<"2", ".", "0">>]

HarSpecVersion11 == Bytes["1.1"]
HarSpecVersion12 == Bytes["1.2"]
HarSpecVersion13 == Bytes["1.3"]

\* strings.TrimSpace
RECURSIVE TrimLeft(_)
TrimLeft(str) ==
    IF str # <<>> /\ Head(str) = " " THEN TrimLeft(Tail(str)) ELSE str
RECURSIVE TrimRight(_)
TrimRight(str) ==
    IF str # <<>> /\ str[Len(str)] = " " THEN TrimRight(SubSeq(str, 1, Len(str) - 1))
    ELSE str
TrimSpace(str) == TrimRight(TrimLeft(str))

\* strings.HasPrefix
HasPrefix(str, prefix) ==
    Len(str) >= Len(prefix) /\ SubSeq(str, 1, Len(prefix)) = prefix

IsValidHarVersion(version) ==
    version = HarSpecVersion11 \/ version = HarSpecVersion12 \/ version = HarSpecVersion13

DetectHarVersion_ExactOnly(h) ==
    IF h.isNil \/ h.Version = <<>> THEN HarSpecVersion12
    ELSE IF IsValidHarVersion(TrimSpace(h.Version)) THEN TrimSpace(h.Version)
    ELSE HarSpecVersion12
DetectHarVersion(h) ==
    IF h.isNil \/ h.Version = <<>> THEN HarSpecVersion12
    ELSE LET version == TrimSpace(h.Version)
         IN  IF IsValidHarVersion(version) THEN version
             ELSE IF HasPrefix(version, HarSpecVersion11) THEN HarSpecVersion11
             ELSE IF HasPrefix(version, HarSpecVersion12) THEN HarSpecVersion12
             ELSE IF HasPrefix(version, HarSpecVersion13) THEN HarSpecVersion13
             ELSE HarSpecVersion12

\* The archives given to it: nil, or one with any version of up to
\* MaxVersionLen bytes
VerInit ==
    /\ ver \in {[isNil |-> TRUE, Version |-> <<>>]}
               \cup [isNil : {FALSE},
                     Version : UNION {[1..n -> VersionBytes] : n \in 0..MaxVersionLen}]
    /\ det = [state |-> "none", version |-> <<>>, again |-> <<>>]
    /\ opt = [state |-> "none", har |-> NilOptimizedHar, err |-> "nil"]
    /\ std = NotRun
    /\ popts = DefaultParseOptions
    /\ pres = NotRun
    /\ ProvIdle
    /\ cdoc = NoDoc
    /\ strict = NotRun
    /\ lazy = NotRun
    /\ conv = NotRun

\* detected := DetectHarVersion(har)
DoDetectHarVersion ==
    /\ det.state = "none"
    /\ det' = [det EXCEPT !.state = "once", !.version = DetectHarVersion(ver)]
    /\ UNCHANGED <<ver, cdoc, strict, lazy, conv, optVars, parseVars,
                   cursorVars, callerVars, lazyVars, provVars>>

\* DetectHarVersion of an archive that carries the detected version
DoDetectAgain ==
    /\ det.state = "once"
    /\ det' = [det EXCEPT !.state = "twice",
                          !.again = DetectHarVersion([isNil |-> FALSE,
                                                      Version |-> det.version])]
    /\ UNCHANGED <<ver, cdoc, strict, lazy, conv, optVars, parseVars,
                   cursorVars, callerVars, lazyVars, provVars>>

VerNext == DoDetectHarVersion \/ DoDetectAgain

(***************************************************************************)
(* ParseHarWithOptions and parseLenient. A partial error is [path, i]: i   *)
(* is 0 and path the field for a field of the log; for entry i (counted    *)
(* from 1) path is the field below log.entries[i], "" for the entry itself. *)
(***************************************************************************)
MaxParseEntries == 2   \* longest log.entries of the documents given to ParseHarWithOptions

\* parseLenient, the creator member: decoded as a whole, kept only if it decodes
LenientCreator(d) ==
    LET name == IntoString(d.creatorName, "")
        cver == IntoString(d.creatorVersion, "")
    IN  IF name.ok /\ cver.ok
        THEN [Name |-> name.val, Version |-> cver.val, errs |-> <<>>]
        ELSE [Name |-> "", Version |-> "", errs |-> <<[path |-> "log.creator", i |-> 0]>>]

\* parseLenient, the version member
LenientVersion(d) ==
    IF IntoString(d.version, "").ok
    THEN [Version |-> IntoString(d.version, "").val, errs |-> <<>>]
    ELSE [Version |-> "", errs |-> <<[path |-> "log.version", i |-> 0]>>]

\* parseLenient, the loop over the raw entries from index i on: an entry that
\* decodes is appended, one that does not adds a partial error
RECURSIVE LenientEntries(_, _, _, _)
LenientEntries(items, i, acc, errs) ==
    IF i > Len(items) THEN [items |-> acc, errs |-> errs]
    ELSE IF UnmarshalEntriesItem(items[i]).ok
    THEN LenientEntries(items, i + 1, Append(acc, UnmarshalEntriesItem(items[i]).val), errs)
    ELSE LenientEntries(items, i + 1, acc, Append(errs, [path |-> "", i |-> i]))

\* parseLenient up to its last statement: the Har it has built and the partial
\* errors of rootError
LenientDecode(d) ==
    LET empty == [isNil |-> FALSE, Version |-> "", CreatorName |-> "",
                  CreatorVersion |-> "", Entries |-> [isNil |-> FALSE, items |-> <<>>]]
        version == LenientVersion(d)
        creator == LenientCreator(d)
        entries == IF d.entries.k = "arr" THEN LenientEntries(d.entries.items, 1, <<>>, <<>>)
                   ELSE IF d.entries.k \in {"absent", "null"}
                   THEN [items |-> <<>>, errs |-> <<>>]
                   ELSE [items |-> <<>>, errs |-> <<[path |-> "log.entries", i |-> 0]>>]
    IN  IF d.log = "absent" THEN [har |-> empty, errs |-> <<[path |-> "log", i |-> 0]>>]
        ELSE IF d.log = "null" THEN [har |-> empty, errs |-> <<>>]
        ELSE IF d.log # "obj" THEN [har |-> empty, errs |-> <<[path |-> "log", i |-> 0]>>]
        ELSE [har |-> [empty EXCEPT !.Version = version.Version,
                                    !.CreatorName = creator.Name,
                                    !.CreatorVersion = creator.Version,
                                    !.Entries.items = entries.items],
              errs |-> version.errs \o creator.errs \o entries.errs]

\* parseLenient's last statement: what is returned
LenientReturn(r, options) ==
    IF r.errs # <<>> /\ options.CollectWarnings
    THEN IF r.har.Version # "" \/ Len(r.har.Entries.items) > 0
         THEN [har |-> r.har, err |-> "JSONParse", errs |-> r.errs]
         ELSE [har |-> NilHar, err |-> "JSONParse", errs |-> r.errs]
    ELSE IF r.errs # <<>> THEN [har |-> NilHar, err |-> "JSONParse", errs |-> r.errs]
    ELSE [har |-> r.har, err |-> "nil", errs |-> <<>>]

parseLenient(d, options) == LenientReturn(LenientDecode(d), options)

\* ParseHarWithOptions
ParseHarWithOptions(d, options) ==
    LET u == UnmarshalHarDoc(d)
    IN  IF options.Lenient THEN parseLenient(d, options)
        ELSE IF ~u.ok THEN [har |-> NilHar, err |-> "JSONParse", errs |-> <<>>]
        ELSE IF ~options.SkipValidation /\ ValidateHarFile(u.val) # <<>>
        THEN [har |-> NilHar, err |-> "Validation", errs |-> ValidateHarFile(u.val)]
        ELSE [har |-> u.val, err |-> "nil", errs |-> <<>>]

\* ParseHarWithOptions on the buffer b holding the document d: the two checks
\* ahead of the decoding, and the json.Unmarshal (into Har, or into the map of
\* parseLenient) of a buffer that holds no object
ParseHarWithOptionsBytes(b, d, options) ==
    IF b.empty THEN [har |-> NilHar, err |-> "InvalidFormat", errs |-> <<>>]
    ELSE IF ~isJSONContent(b) THEN [har |-> NilHar, err |-> "InvalidFormat", errs |-> <<>>]
    ELSE IF b.json # "object" THEN [har |-> NilHar, err |-> "JSONParse", errs |-> <<>>]
    ELSE ParseHarWithOptions(d, options)

\* The documents: every member of the log may be missing or of the wrong type,
\* and so may the response status and the request method of an entry
ParseContents ==
    {[k |-> "obj", raw |-> [size |-> Num(3), mimeType |-> Str("text/plain"),
                            text |-> Absent, encoding |-> Absent]]}
ParseEntryDocs ==
    [status : {Num(200), Num(0), Str("not-a-number")}, content : ParseContents,
     rest : {PlainRest, [PlainRest EXCEPT !.method = Absent]}]
ParseEntries ==
    {[k |-> "absent", items |-> <<>>], [k |-> "num", items |-> <<>>]}
    \cup {[k |-> "arr", items |-> e] :
             e \in UNION {[1..n -> ParseEntryDocs] : n \in 0..MaxParseEntries}}
ParseDocs ==
    [log : {"obj"}, version : {Str("1.2"), Str("1.2.3"), Str("2.0"), Absent, Num(12)},
     creatorName : {Str("har"), Absent, Num(1)}, creatorVersion : {Str("1")},
     entries : ParseEntries]
    \cup
    [log : {"absent", "null", "num"}, version : {Absent}, creatorName : {Absent},
     creatorVersion : {Absent}, entries : {[k |-> "absent", items |-> <<>>]}]

ParseInit ==
    /\ cdoc \in ParseDocs
    /\ popts \in [Lenient : BOOLEAN, SkipValidation : BOOLEAN, CollectWarnings : BOOLEAN,
                   MaxWarnings : {100}]
                  \cup [Lenient : {TRUE}, SkipValidation : {FALSE},
                        CollectWarnings : BOOLEAN, MaxWarnings : {1}]
    /\ pres = NotRun
    /\ ProvIdle
    /\ strict = NotRun
    /\ lazy = NotRun
    /\ conv = NotRun
    /\ opt = [state |-> "none", har |-> NilOptimizedHar, err |-> "nil"]
    /\ std = NotRun
    /\ ver = [isNil |-> TRUE, Version |-> <<>>]
    /\ det = [state |-> "none", version |-> <<>>, again |-> <<>>]

DoParseHarWithOptions ==
    /\ pres.state = "none"
    /\ LET r == ParseHarWithOptionsBytes(buf, cdoc, popts)
       IN  pres' = [state |-> "done", har |-> r.har, err |-> r.err, errs |-> r.errs]
    /\ UNCHANGED <<cdoc, popts, strict, lazy, conv, optVars, verVars,
                   cursorVars, callerVars, lazyVars, provVars>>

ParseNext == DoParseHar \/ DoParseHarWithOptions


(***************************************************************************)
(* ParseHarWithWarnings. A warning is [path, i, msg]: path and i as in a   *)
(* partial error, msg what tells its Message from that of another warning  *)
(* of the same field.                                                      *)
(***************************************************************************)
MaxWarnEntries == 2   \* longest log.entries of the documents given to ParseHarWithWarnings

\* The partial errors of a Diagnostic, as warnings
AsWarnings(errs, msg) ==
    [j \in 1..Len(errs) |-> [path |-> errs[j].path, i |-> errs[j].i, msg |-> msg]]

\* validateURLs, the warning it makes for entry i
URLWarning(i, msg, url) == [path |-> "request.url", i |-> i, msg |-> <<msg, url>>]

\* validateURLs, for the entries of the Archive from index i on
RECURSIVE validateURLs(_, _)
validateURLs(items, i) ==
    IF i > Len(items) THEN <<>>
    ELSE LET u == UrlBytes[items[i].URL]
         IN  (IF u = <<>> THEN <<>>
              ELSE IF urlParseFails(u) THEN <<URLWarning(i, "format", items[i].URL)>>
              ELSE (IF Contains(u, <<" ">>)
                    THEN <<URLWarning(i, "space", items[i].URL)>> ELSE <<>>)
                   \o (IF ~Contains(u, <<":", "/", "/">>)
                       THEN <<URLWarning(i, "scheme", items[i].URL)>> ELSE <<>>))
             \o validateURLs(items, i + 1)

\* performFullValidation
performFullValidation(h) == AsWarnings(ValidateHarFile(h), <<"validation">>)

\* appendWarnings, for the new warnings from index j on: one whose field and
\* message an earlier warning has is left out
RECURSIVE appendWarnings(_, _, _)
appendWarnings(existing, newWarnings, j) ==
    IF j > Len(newWarnings) THEN existing
    ELSE IF \E k \in 1..Len(existing) : existing[k] = newWarnings[j]
    THEN appendWarnings(existing, newWarnings, j + 1)
    ELSE appendWarnings(Append(existing, newWarnings[j]), newWarnings, j + 1)

\* ParseHarWithWarnings, from the return of ParseHarWithOptions (r) on: the
\* Result (isNil: no Result), its Har and Warnings, and the error
ResultWithWarnings(r) ==
    LET parsed == IF r.err # "nil" THEN appendWarnings(<<>>, AsWarnings(r.errs, <<"parse">>), 1)
                  ELSE <<>>
        urls == appendWarnings(parsed, validateURLs(r.har.Entries.items, 1), 1)
    IN  IF r.err # "nil" /\ r.har.isNil
        THEN [isNil |-> TRUE, har |-> NilHar, warnings |-> <<>>, err |-> r.err]
        ELSE IF urls = <<>>
        THEN [isNil |-> FALSE, har |-> r.har,
              warnings |-> appendWarnings(<<>>, performFullValidation(r.har), 1),
              err |-> "nil"]
        ELSE [isNil |-> FALSE, har |-> r.har, warnings |-> urls, err |-> "nil"]

\* ParseHarWithWarnings
ParseHarWithWarnings(b, d) ==
    ResultWithWarnings(ParseHarWithOptionsBytes(b, d, [DefaultParseOptions EXCEPT
                                                         !.Lenient = TRUE,
                                                         !.CollectWarnings = TRUE]))

\* The documents: an entry may have a response status that does not decode, and
\* a request URL that is empty, does not parse, has a space or has no "://"
WarnEntryDocs ==
    [status : {Num(200), Str("not-a-number")}, content : ParseContents,
     rest : {[PlainRest EXCEPT !.url = Str(u)] :
                u \in {"", "http://a", "http://a/b c", "a", "%"}}]
WarnDocs ==
    [log : {"obj"}, version : {Str("1.2"), Absent}, creatorName : {Str("har"), Absent},
     creatorVersion : {Str("1")},
     entries : {[k |-> "arr", items |-> e] :
                   e \in UNION {[1..n -> WarnEntryDocs] : n \in 0..MaxWarnEntries}}]

WarnInit ==
    /\ cdoc \in WarnDocs
    /\ popts = [DefaultParseOptions EXCEPT !.Lenient = TRUE, !.CollectWarnings = TRUE]
    /\ pres = NotRun
    /\ strict = NotRun
    /\ lazy = NotRun
    /\ conv = NotRun
    /\ opt = [state |-> "none", har |-> NilOptimizedHar, err |-> "nil"]
    /\ std = NotRun
    /\ ver = [isNil |-> TRUE, Version |-> <<>>]
    /\ det = [state |-> "none", version |-> <<>>, again |-> <<>>]
    /\ ProvIdle

DoParseHarWithWarnings ==
    /\ warn.state = "none"
    /\ LET r == ParseHarWithWarnings(buf, cdoc)
       IN  warn' = [state |-> "done", isNil |-> r.isNil, har |-> r.har,
                    warnings |-> r.warnings, err |-> r.err]
    /\ UNCHANGED <<cdoc, strict, lazy, conv, optVars, verVars, parseVars,
                   cursorVars, callerVars, lazyVars, buf, pcall, prov, access, strm, stdh>>

WarnNext == DoParseHarWithOptions \/ DoParseHarWithWarnings

(***************************************************************************)
(* Parse and NewStreamingParser on a byte buffer. A HARProvider is         *)
(* [kind, isNilInterface, har]: isNilInterface for the nil interface       *)
(* value, and otherwise the pointer it holds, whose har.isNil says that    *)
(* the pointer is nil. An error is named by the Code of its *HarError, and *)
(* "fmt.wrapError" is an error that is no *HarError.                       *)
(***************************************************************************)
MaxDecodeEntries == 1   \* longest log.entries of the documents given to every entry point

\* The buffers: empty, blank, an object, an array, and bytes that are no JSON
\* value between any first and last byte
Bufs ==
    {[empty |-> TRUE, first |-> "", last |-> "", json |-> "invalid"],
     [empty |-> FALSE, first |-> "", last |-> "", json |-> "invalid"],
     ObjectBuf,
     [empty |-> FALSE, first |-> "[", last |-> "]", json |-> "array"]}
    \cup [empty : {FALSE}, first : {"{", "[", "x"}, last : {"}", "]", "x"},
          json : {"invalid"}]

\* validateInput
validateInput(b) ==
    IF b.empty THEN "InvalidFormat"
    ELSE IF ~isJSONContent(b) THEN "InvalidFormat"
    ELSE "nil"

\* NewStreamingParser on the buffer b holding the document d: validateInput,
\* then NewStreamingHarFromBytes, whose json.Unmarshal into Har fails as that
\* of ParseHar does and whose error is made by fmt.Errorf
NewStreamingParser(b, d) ==
    IF validateInput(b) # "nil" THEN [isNil |-> TRUE, err |-> validateInput(b)]
    ELSE IF b.json # "object" \/ ~UnmarshalHarDoc(d).ok
    THEN [isNil |-> TRUE, err |-> "fmt.wrapError"]
    ELSE [isNil |-> FALSE, err |-> "nil"]

\* toParseOptions
toParseOptions(o) ==
    [Lenient |-> o.lenient, SkipValidation |-> o.skipValidation,
     CollectWarnings |-> o.collectWarnings, MaxWarnings |-> o.maxWarnings]

\* return p, err where p is a pointer and the result type is HARProvider: the
\* interface value holds the pointer, nil or not
AsProvider(kind, r) ==
    [provider |-> [kind |-> kind, isNilInterface |-> FALSE, har |-> r.har], err |-> r.err]

\* parseWithStrategy
parseWithStrategy(b, d, o) ==
    IF o.useStreaming THEN [provider |-> NoProvider, err |-> "Unsupported"]
    ELSE IF o.useMemoryOptimized THEN AsProvider("optimized", ParseHarOptimized(b, d))
    ELSE IF o.useLazyLoading THEN AsProvider("lazy", ParseHarWithLazyLoading(b, d))
    ELSE AsProvider("standard", ParseHarWithOptionsBytes(b, d, toParseOptions(o)))

\* Parse
Parse(b, d, o) ==
    IF validateInput(b) # "nil" THEN [provider |-> NoProvider, err |-> validateInput(b)]
    ELSE parseWithStrategy(b, d, o)

\* The options of a call: applyOptions of any of WithLenient with
\* WithCollectWarnings, WithSkipValidation, WithMemoryOptimized,
\* WithLazyLoading, WithStreaming
ParseCalls ==
    [lenient : BOOLEAN, skipValidation : BOOLEAN, collectWarnings : BOOLEAN,
     maxWarnings : {100}, useMemoryOptimized : BOOLEAN, useLazyLoading : BOOLEAN,
     useStreaming : BOOLEAN]

\* The documents: the log, its version, its creator name and the response
\* status of an entry may be missing or of the wrong type
DecodeEntryDocs ==
    [status : {Num(200), Str("not-a-number")}, content : ParseContents, rest : {PlainRest}]
DecodeDocs ==
    [log : {"obj"}, version : {Str("1.2"), Absent, Num(12)},
     creatorName : {Str("har"), Absent}, creatorVersion : {Str("1")},
     entries : {[k |-> "absent", items |-> <<>>]}
               \cup {[k |-> "arr", items |-> e] :
                        e \in UNION {[1..n -> DecodeEntryDocs] : n \in 0..MaxDecodeEntries}}]
    \cup
    [log : {"absent", "num"}, version : {Absent}, creatorName : {Absent},
     creatorVersion : {Absent}, entries : {[k |-> "absent", items |-> <<>>]}]

DecodeInit ==
    /\ buf \in Bufs
    /\ cdoc \in (IF buf.json = "object" THEN DecodeDocs ELSE {NoDoc})
    /\ pcall \in {o \in ParseCalls :
                     /\ o.collectWarnings = o.lenient
                     /\ ~(o.useMemoryOptimized /\ o.useLazyLoading)
                     /\ (o.useStreaming => ~(o.useMemoryOptimized \/ o.useLazyLoading))}
    /\ popts \in {toParseOptions(o) : o \in {c \in ParseCalls : ~c.lenient /\ ~c.collectWarnings}}
    /\ pres = NotRun
    /\ strict = NotRun
    /\ lazy = NotRun
    /\ conv = NotRun
    /\ opt = [state |-> "none", har |-> NilOptimizedHar, err |-> "nil"]
    /\ std = NotRun
    /\ ver = [isNil |-> TRUE, Version |-> <<>>]
    /\ det = [state |-> "none", version |-> <<>>, again |-> <<>>]
    /\ prov = [state |-> "none", provider |-> NoProvider, err |-> "nil"]
    /\ access = [state |-> "none", got |-> <<>>]
    /\ strm = [state |-> "none", isNil |-> TRUE, err |-> "nil"]
    /\ stdh = NotRun
    /\ warn = [state |-> "none", isNil |-> TRUE, har |-> NilHar, warnings |-> <<>>,
               err |-> "nil"]

DoParse ==
    /\ prov.state = "none"
    /\ LET r == Parse(buf, cdoc, pcall)
       IN  prov' = [state |-> "done", provider |-> r.provider, err |-> r.err]
    /\ UNCHANGED <<cdoc, strict, lazy, conv, optVars, verVars, parseVars,
                   cursorVars, callerVars, lazyVars, buf, pcall, access, strm, stdh, warn>>

DoNewStreamingParser ==
    /\ strm.state = "none"
    /\ LET r == NewStreamingParser(buf, cdoc)
       IN  strm' = [state |-> "done", isNil |-> r.isNil, err |-> r.err]
    /\ UNCHANGED <<cdoc, strict, lazy, conv, optVars, verVars, parseVars,
                   cursorVars, callerVars, lazyVars, buf, pcall, prov, access, stdh, warn>>

DecodeNext ==
    \/ DoParseHar
    \/ DoParseHarWithOptions
    \/ DoParseHarOptimized
    \/ DoParseHarWithLazyLoading
    \/ DoNewStreamingParser
    \/ DoParse

(***************************************************************************)
(* The accessors of the entries of a HARProvider: what each returns, and   *)
(* panics, the accessors whose call panics on a nil interface value (they  *)
(* return nothing; the record holds the zero value for them).              *)
(***************************************************************************)
MaxProvEntries == 1   \* longest log.entries of the documents given to Parse

\* entry.GetRequest().GetMethod(), … of *Entries
StandardAccessors(e) ==
    [GetMethod |-> e.Method, GetURL |-> e.URL, GetStatus |-> e.Status,
     GetSize |-> e.Content.Size, GetMimeType |-> e.Content.MimeType,
     GetText |-> "", GetEncoding |-> "",
     GetSSL |-> e.Ssl, GetWait |-> e.Wait, panics |-> {}]

\* … of *OptimizedEntries: GetContent returns the nil ContentProvider for a
\* nil Content
OptimizedAccessors(e) ==
    [GetMethod |-> GetMethod(e), GetURL |-> e.URL, GetStatus |-> e.Status,
     GetSize |-> IF e.Content = <<>> THEN 0 ELSE e.Content[1].Size,
     GetMimeType |-> IF e.Content = <<>> THEN "" ELSE e.Content[1].MimeType,
     GetText |-> IF e.Content = <<>> THEN ""
                 ELSE IF e.Content[1].Text # <<>> THEN e.Content[1].Text[1] ELSE "",
     GetEncoding |-> IF e.Content = <<>> THEN ""
                     ELSE IF e.Content[1].Encoding # <<>> THEN e.Content[1].Encoding[1]
                     ELSE "",
     GetSSL |-> GetSSL(e), GetWait |-> GetWait(e),
     panics |-> IF e.Content = <<>> THEN {"GetSize", "GetMimeType", "GetText", "GetEncoding"}
                ELSE {}]

\* lazyContentWrapper.GetText and GetEncoding, from the return of Load on
WrapperText(l) == IF l.err # "nil" \/ l.lc.Text = <<>> THEN "" ELSE l.lc.Text[1]
WrapperEncoding(l) == IF l.lc.Encoding = <<>> THEN "" ELSE l.lc.Encoding[1]

\* … of *LazyEntries, whose GetContent returns a lazyContentWrapper
LazyAccessors(e) ==
    [GetMethod |-> e.Method, GetURL |-> e.URL, GetStatus |-> e.Status,
     GetSize |-> IF e.Content = <<>> THEN 0 ELSE e.Content[1].Size,
     GetMimeType |-> IF e.Content = <<>> THEN "" ELSE e.Content[1].MimeType,
     GetText |-> IF e.Content = <<>> THEN "" ELSE WrapperText(LcLoad(e.Content[1])),
     GetEncoding |-> IF e.Content = <<>> THEN "" ELSE WrapperEncoding(LcLoad(e.Content[1])),
     GetSSL |-> e.Ssl, GetWait |-> e.Wait, panics |-> {}]

\* for _, entry := range p.GetEntries(), p holding a pointer that is not nil:
\* what the accessors of each entry return
Accessors(p) ==
    IF p.kind = "optimized"
    THEN [i \in 1..Len(p.har.Entries) |-> OptimizedAccessors(p.har.Entries[i])]
    ELSE IF p.kind = "lazy"
    THEN [i \in 1..Len(p.har.Entries.items) |-> LazyAccessors(p.har.Entries.items[i])]
    ELSE [i \in 1..Len(p.har.Entries.items) |-> StandardAccessors(p.har.Entries.items[i])]

\* The documents: an entry may have no response content, a content with a
\* text, a method in lower case or unknown to HTTPMethod, and a zero timing
ProvContents ==
    {[k |-> "absent", raw |-> NoRaw]}
    \cup {[k |-> "obj", raw |-> r] :
             r \in [size : {Num(3)}, mimeType : {Str("text/plain")},
                    text : {Absent, Str("hello")}, encoding : {Absent}]}
ProvEntryDocs ==
    [status : {Num(200)}, content : ProvContents,
     rest : {PlainRest, [PlainRest EXCEPT !.method = Str("get")],
             [PlainRest EXCEPT !.method = Str("PURGE")],
             [PlainRest EXCEPT !.ssl = Num(0)]}]
ProvDocs ==
    [log : {"obj"}, version : {Str("1.2"), Absent}, creatorName : {Str("har")},
     creatorVersion : {Str("1")},
     entries : {[k |-> "arr", items |-> e] :
                   e \in UNION {[1..n -> ProvEntryDocs] : n \in 0..MaxProvEntries}}]

ProvInit ==
    /\ buf \in Bufs
    /\ cdoc \in (IF buf.json = "object" THEN ProvDocs ELSE {NoDoc})
    /\ pcall \in {o \in ParseCalls : o.collectWarnings = o.lenient}
    /\ popts \in {toParseOptions(o) : o \in {c \in ParseCalls : ~c.lenient /\ ~c.collectWarnings}}
    /\ pres = NotRun
    /\ strict = NotRun
    /\ lazy = NotRun
    /\ conv = NotRun
    /\ opt = [state |-> "none", har |-> NilOptimizedHar, err |-> "nil"]
    /\ std = NotRun
    /\ ver = [isNil |-> TRUE, Version |-> <<>>]
    /\ det = [state |-> "none", version |-> <<>>, again |-> <<>>]
    /\ prov = [state |-> "none", provider |-> NoProvider, err |-> "nil"]
    /\ access = [state |-> "none", got |-> <<>>]
    /\ strm = [state |-> "none", isNil |-> TRUE, err |-> "nil"]
    /\ stdh = NotRun
    /\ warn = [state |-> "none", isNil |-> TRUE, har |-> NilHar, warnings |-> <<>>,
               err |-> "nil"]

\* ToOptimizedHar(h) of the Archive that ParseHarWithOptions returned, taken
\* as a HARProvider
DoToOptimizedHar ==
    /\ pres.state = "done"
    /\ ~pres.har.isNil
    /\ prov.state = "none"
    /\ prov' = [state |-> "converted",
                provider |-> [kind |-> "optimized", isNilInterface |-> FALSE,
                              har |-> ToOptimizedHar(pres.har)],
                err |-> "nil"]
    /\ UNCHANGED <<cdoc, strict, lazy, conv, optVars, verVars, parseVars,
                   cursorVars, callerVars, lazyVars, buf, pcall, access, strm, stdh, warn>>

\* The accessors of every entry of a provider that holds a representation
DoAccess ==
    /\ prov.state # "none"
    /\ ~prov.provider.isNilInterface
    /\ ~prov.provider.har.isNil
    /\ access.state = "none"
    /\ access' = [state |-> "done", got |-> Accessors(prov.provider)]
    /\ UNCHANGED <<cdoc, strict, lazy, conv, optVars, verVars, parseVars,
                   cursorVars, callerVars, lazyVars, buf, pcall, prov, strm, stdh, warn>>

ProvNext == DoParse \/ DoParseHarWithOptions \/ DoToOptimizedHar \/ DoAccess

(***************************************************************************)
(* Sequential use of one cursor                                            *)
(***************************************************************************)
CursorInit ==
    /\ doc \in Docs
    /\ source \in {"bytes", "file"}
    /\ NewStreamingHar(source, doc).ok
    /\ har = NewStreamingHar(source, doc).har
    /\ it = EntriesIterator(har)
    /\ obs = [op |-> "none", nextRet |-> "none", yielded |-> <<>>, nexts |-> 0,
              falseAt |-> 0, closes |-> 0, closeRet |-> "none"]
    /\ thr = [t \in Callers |->
                [pc |-> "idle", op |-> "none", entry |-> ZeroEntry, ret |-> "none",
                 afterClose |-> FALSE, calls |-> 0]]
    /\ writer = [closed |-> 0, err |-> 0]

Init == CursorInit /\ LazyIdle /\ ConvIdle

DoNext ==
    /\ obs.nexts < MaxCalls
    /\ LET r == ItNext(it)
       IN  /\ it' = r.it
           /\ obs' = [obs EXCEPT
                        !.op = "Next",
                        !.nextRet = IF r.ret THEN "true" ELSE "false",
                        !.nexts = @ + 1,
                        !.falseAt = IF ~r.ret /\ @ = 0 THEN obs.nexts + 1 ELSE @,
                        !.yielded = IF r.ret THEN Append(@, ItEntry(r.it)) ELSE @]
    /\ UNCHANGED <<doc, source, har, callerVars, lazyVars, convVars>>

DoClose ==
    /\ obs.closes < MaxCloses
    /\ LET r == ItClose(it, har)
       IN  /\ it' = r.it
           /\ har' = r.har
           /\ obs' = [obs EXCEPT !.op = "Close", !.closes = @ + 1, !.closeRet = r.ret]
    /\ UNCHANGED <<doc, source, callerVars, lazyVars, convVars>>

DoHarClose ==
    /\ har.file = "open"
    /\ har' = HarCloseFile(har)
    /\ obs' = [obs EXCEPT !.op = "HarClose"]
    /\ UNCHANGED <<doc, source, it, callerVars, lazyVars, convVars>>

Next == DoNext \/ DoClose \/ DoHarClose

Spec == Init /\ [][Next]_vars

(***************************************************************************)
(* Concurrent use of one cursor. Next and Close take no lock (the only     *)
(* mutex of the file is StreamingHar.mutex, held by Entries and by         *)
(* StreamingHar.Close), so goroutines interleave between the statements of *)
(* the two methods, and a read of it.closed or it.err that no              *)
(* happens-before edge orders after another goroutine's write may still    *)
(* return the value from before that write.                                *)
(***************************************************************************)
Return(t, ret) == [thr EXCEPT ![t].pc = "idle", ![t].ret = ret]

\* The values a read by goroutine t of a field may return: the current one, or
\* the one before the last write when another goroutine made that write
ReadClosed(t) ==
    {it.closed} \cup (IF writer.closed \notin {0, t} THEN {FALSE} ELSE {})
ReadErr(t) ==
    {it.err} \cup (IF writer.err \notin {0, t} THEN {"nil"} ELSE {})

CallNext(t) ==
    /\ thr[t].pc = "idle"
    /\ thr[t].calls < MaxCallerCalls
    /\ thr' = [thr EXCEPT ![t].pc = "next_guard", ![t].op = "Next", ![t].ret = "none",
                          ![t].afterClose = it.closed, ![t].calls = @ + 1]
    /\ UNCHANGED <<cursorVars, writer, lazyVars, convVars>>

\* if it.closed || it.err != nil { return false }
StepNextGuard(t) ==
    /\ thr[t].pc = "next_guard"
    /\ \E closed \in ReadClosed(t), err \in ReadErr(t) :
          thr' = IF NextGuard([it EXCEPT !.closed = closed, !.err = err])
                 THEN Return(t, "false")
                 ELSE [thr EXCEPT ![t].pc = "next_decode"]
    /\ UNCHANGED <<cursorVars, writer, lazyVars, convVars>>

\* the scan, decoder.More and decoder.Decode(&entry)
StepNextDecode(t) ==
    /\ thr[t].pc = "next_decode"
    /\ LET d == NextDecode(it)
       IN  /\ it' = d.it
           /\ writer' = IF d.it.err # it.err THEN [writer EXCEPT !.err = t] ELSE writer
           /\ thr' = IF d.done THEN Return(t, "false")
                     ELSE [thr EXCEPT ![t].pc = "next_commit", ![t].entry = d.entry]
    /\ UNCHANGED <<doc, source, har, obs, lazyVars, convVars>>

\* it.entry = entry; it.currentPos++; return true
StepNextCommit(t) ==
    /\ thr[t].pc = "next_commit"
    /\ it' = NextCommit(it, thr[t].entry)
    /\ thr' = Return(t, "true")
    /\ UNCHANGED <<doc, source, har, obs, writer, lazyVars, convVars>>

CallClose(t) ==
    /\ thr[t].pc = "idle"
    /\ thr[t].calls < MaxCallerCalls
    /\ thr' = [thr EXCEPT ![t].pc = "close_guard", ![t].op = "Close", ![t].ret = "none",
                          ![t].calls = @ + 1]
    /\ UNCHANGED <<cursorVars, writer, lazyVars, convVars>>

\* if it.closed { return nil }
StepCloseGuard(t) ==
    /\ thr[t].pc = "close_guard"
    /\ \E closed \in ReadClosed(t) :
          thr' = IF closed THEN Return(t, "nil") ELSE [thr EXCEPT ![t].pc = "close_set"]
    /\ UNCHANGED <<cursorVars, writer, lazyVars, convVars>>

\* it.closed = true, and the close of it.file when set
StepCloseSet(t) ==
    /\ thr[t].pc = "close_set"
    /\ LET r == ItClose([it EXCEPT !.closed = FALSE], har)
       IN  /\ it' = r.it
           /\ har' = r.har
           /\ thr' = Return(t, r.ret)
    /\ writer' = [writer EXCEPT !.closed = t]
    /\ UNCHANGED <<doc, source, obs, lazyVars, convVars>>

RaceNext ==
    \E t \in Callers :
        \/ CallNext(t)
        \/ StepNextGuard(t)
        \/ StepNextDecode(t)
        \/ StepNextCommit(t)
        \/ CallClose(t)
        \/ StepCloseGuard(t)
        \/ StepCloseSet(t)

SpecRace == Init /\ [][RaceNext]_vars

(***************************************************************************)
(* K goroutines forcing one LazyContent; the parsers on one document       *)
(***************************************************************************)
InitLazy == CursorIdle /\ LazyInit /\ ConvIdle

SpecLazy == InitLazy /\ [][LazyNext]_vars

InitConv == CursorIdle /\ LazyIdle /\ ConvInit

SpecConv == InitConv /\ [][ConvNext]_vars

InitOpt == CursorIdle /\ LazyIdle /\ OptInit

SpecOpt == InitOpt /\ [][OptNext]_vars

InitVersion == CursorIdle /\ LazyIdle /\ VerInit

SpecVersion == InitVersion /\ [][VerNext]_vars

InitParse == CursorIdle /\ LazyIdle /\ ParseInit

SpecParse == InitParse /\ [][ParseNext]_vars

InitWarn == CursorIdle /\ LazyIdle /\ WarnInit

SpecWarn == InitWarn /\ [][WarnNext]_vars

InitDecode == CursorIdle /\ LazyIdle /\ DecodeInit

SpecDecode == InitDecode /\ [][DecodeNext]_vars

InitProv == CursorIdle /\ LazyIdle /\ ProvInit

SpecProv == InitProv /\ [][ProvNext]_vars

(***************************************************************************)
(* Properties of the cursor                                                *)
(***************************************************************************)
Last(s) == s[Len(s)]
LogEntries == UnmarshalHar(doc).entries

\* C1: an in-memory cursor over a document whose log.entries has N elements
\* returns true exactly N times and then false, the k-th true call exposing the
\* k-th element; with N = 0 the first Next() is false and Err() is nil.
C1_YieldsLogEntries ==
    (source = "bytes" /\ obs.closes = 0) =>
        /\ Len(obs.yielded) <= Len(LogEntries)
        /\ obs.yielded = SubSeq(LogEntries, 1, Len(obs.yielded))
        /\ (obs.falseAt # 0 => /\ obs.falseAt = Len(LogEntries) + 1
                               /\ obs.yielded = LogEntries)
        /\ (obs.falseAt = 1 /\ LogEntries = <<>> /\ obs.nexts = 1 => ItErr(it) = "nil")

\* C2: once Next() has returned false, every later Next() returns false.
C2_FalseIsTerminal ==
    [][(obs.falseAt # 0 /\ obs'.nexts = obs.nexts + 1) => obs'.nextRet = "false"]_vars

\* C3: after a successful Next(), a Next() that returns false leaves the current
\* entry unchanged: Entry() returns the last decoded entry, on every later call too.
C3_FalseKeepsEntry ==
    (obs.yielded # <<>> /\ obs.nextRet = "false") => ItEntry(it) = Last(obs.yielded)

C3_Witness ==
    /\ obs.yielded # <<>>
    /\ obs.nextRet = "false"
    /\ obs.nexts >= Len(obs.yielded) + 2
    /\ it.err = "nil"

\* C4: after a Next() failed with a decode error e, every Err() returns e and
\* every Next() returns false; when the iteration ended at the end of the array
\* or of the input, Err() returns nil.
C4_ErrorIsRetained ==
    /\ [][ItErr(it) # "nil" =>
            /\ ItErr(it') = ItErr(it)
            /\ (obs'.nexts = obs.nexts + 1 => obs'.nextRet = "false")]_vars
    /\ []((obs.nextRet = "false" /\ it.err \in {"nil", "io.EOF"}) => ItErr(it) = "nil")

C4_Witness ==
    /\ it.err = "UnmarshalTypeError"
    /\ obs.yielded # <<>>
    /\ obs.op = "Next"
    /\ obs.nexts >= Len(obs.yielded) + 2

\* C5: the second and every later Close() returns nil and changes no state, and
\* after a Close() no Next() returns true.
C5_CloseIdempotent ==
    /\ [][(obs.closes >= 1 /\ obs'.closes = obs.closes + 1) =>
            (obs'.closeRet = "nil" /\ it' = it /\ har' = har)]_vars
    /\ [][(obs.closes >= 1 /\ obs'.nexts = obs.nexts + 1) => obs'.nextRet = "false"]_vars

C5_Witness ==
    /\ obs.closes >= 2
    /\ obs.op = "Next"
    /\ obs.yielded # <<>>
    /\ Len(obs.yielded) < Len(LogEntries)

\* C6: after Close() of the cursor of a file-backed stream, the file opened by
\* NewStreamingHarFromFile is closed.
C6_CloseReleasesFile ==
    (source = "file" /\ obs.closes >= 1) => har.file = "closed"

\* C8: the cursor of the file-backed stream yields the same entries and the same
\* final Err() as the cursor of the in-memory stream over the same bytes.
C8_SourcesAgree ==
    (/\ source = "file"
     /\ NewStreamingHarFromBytes(doc).ok
     /\ obs.closes = 0
     /\ obs.falseAt = obs.nexts
     /\ obs.falseAt # 0) =>
        /\ obs.yielded = GetAllEntries(NewStreamingHarFromBytes(doc).har).entries
        /\ ItErr(it) = GetAllEntries(NewStreamingHarFromBytes(doc).har).err

\* A goroutine is inside a call from its first access to the cursor's state to
\* its return
Inside(t) == thr[t].pc \in {"next_decode", "next_commit", "close_set"}

\* C7: one lock of the cursor guards its state: concurrent Next()/Close() calls
\* never access the state at the same time, and a Next() that starts after
\* Close() has set the cursor closed never returns true.
C7_CursorLockGuardsState ==
    /\ \A t, u \in Callers : (Inside(t) /\ Inside(u)) => t = u
    /\ \A t \in Callers :
          (thr[t].op = "Next" /\ thr[t].pc = "idle" /\ thr[t].ret = "true")
              => ~thr[t].afterClose

(***************************************************************************)
(* Properties of LazyContent                                               *)
(***************************************************************************)
AllForced == \A t \in Loaders : ld[t].pc = "done"

\* C9: for K concurrent forced loads of one LazyContent the json.Unmarshal inside
\* Load runs exactly once in total, and all K callers observe the same result.
C9_DecodesExactlyOnce ==
    /\ decodes <= 1
    /\ AllForced => decodes = 1
    /\ \A t, u \in Loaders :
          (ld[t].pc = "done" /\ ld[u].pc = "done") =>
              /\ ld[t].ret.err = ld[u].ret.err
              /\ (ld[t].op = "GetText" /\ ld[u].op = "GetText"
                      => ld[t].ret.text = ld[u].ret.text)

\* One step of a LazyContent: Size, MimeType and the raw span stay, loaded never
\* reverts, and a loaded LazyContent does not change at all
LazyContentStep ==
    /\ lc'.Size = lc.Size
    /\ lc'.MimeType = lc.MimeType
    /\ lc'.rawData = lc.rawData
    /\ lc.loaded => lc' = lc

\* The fields of a LazyContent agree with its raw span: Size and MimeType always,
\* Text and Encoding are nil while unloaded and the raw span's values once loaded
LazyContentCached ==
    /\ lc.Size = LazyUnmarshalJSON(lc.rawData).lc.Size
    /\ lc.MimeType = LazyUnmarshalJSON(lc.rawData).lc.MimeType
    /\ ~lc.loaded => (lc.Text = <<>> /\ lc.Encoding = <<>>)
    /\ lc.loaded =>
          /\ LoadDecode(lc).err = "nil"
          /\ lc.Text = LoadDecode(lc).Text
          /\ lc.Encoding = LoadDecode(lc).Encoding

\* C11: Size and MimeType of a LazyContent are set at construction and never
\* changed by Load/GetText; Text and Encoding are nil and loaded is false until
\* the first successful load; the unloaded-to-loaded transition happens at most
\* once, never reverts, and once loaded Text and Encoding equal the values of the
\* retained raw span and never change again.
C11_LazyContentLoadsOnce ==
    /\ [](LazyContentCached)
    /\ [][LazyContentStep]_vars

\* A loaded LazyContent with a body text that every goroutine has forced
C11_Witness ==
    /\ lc.loaded
    /\ lc.Text = <<"hello">>
    /\ lc.Encoding = <<"base64">>
    /\ AllForced
    /\ \E t \in Loaders : ld[t].op = "GetText" /\ ld[t].ret.text = <<"hello">>
    /\ \E t \in Loaders : ld[t].op = "Load"

(***************************************************************************)
(* Properties of the conversions                                           *)
(***************************************************************************)
\* C10: for every valid document, ParseHarWithLazyLoading followed by
\* ToStandard/ToStandardHar yields the Archive ParseHar yields, each Content's
\* body text and encoding included.
C10_LazyToStandardEqualsStrict ==
    (strict.state = "done" /\ strict.err = "nil" /\ conv.state = "done") =>
        /\ conv.err = "nil"
        /\ conv.har = strict.har
        /\ LazyHarToStandard(lazy.har) = strict.har

(***************************************************************************)
(* Properties of the compact representation                                *)
(***************************************************************************)
\* A header or query-string list as the set of its name/value pairs
PairSet(l) == {l.items[j] : j \in 1..Len(l.items)}

\* Two archives are equal in every field, header and query-string lists
\* compared as sets of pairs
EqualModuloOrder(a, b) ==
    /\ a.isNil = b.isNil
    /\ a.Version = b.Version
    /\ a.CreatorName = b.CreatorName
    /\ a.CreatorVersion = b.CreatorVersion
    /\ Len(a.Entries.items) = Len(b.Entries.items)
    /\ \A i \in 1..Len(a.Entries.items) :
          [a.Entries.items[i] EXCEPT !.Headers = PairSet(@), !.QueryString = PairSet(@)]
              = [b.Entries.items[i] EXCEPT !.Headers = PairSet(@),
                                           !.QueryString = PairSet(@)]

\* C12: for every valid archive A, decoding encode(A) into the compact
\* representation and canonicalizing it (OptimizedHar.ToStandard) yields an
\* Archive equal to A in every field, header and query-string lists compared as
\* sets of name/value pairs.
C12_CompactRoundTrip ==
    (strict.state = "done" /\ strict.err = "nil" /\ std.state = "done") =>
        EqualModuloOrder(std.har, strict.har)

\* The ssl member of entry i of the document is absent / is the number 0
SslAbsent(i) == cdoc.entries.items[i].rest.ssl = Absent
SslZero(i) == cdoc.entries.items[i].rest.ssl = Num(0)

\* C13: an entry whose timings object has no ssl member decodes to an ssl
\* timing of -1, an explicit "ssl": 0 decodes to 0, in the canonical, the
\* deferred and the compact representation.
C13_SslSentinel ==
    \A i \in 1..Len(cdoc.entries.items) :
        /\ (strict.state = "done" /\ strict.err = "nil") =>
              /\ SslAbsent(i) => strict.har.Entries.items[i].Ssl = -1
              /\ SslZero(i) => strict.har.Entries.items[i].Ssl = 0
        /\ (lazy.state = "done" /\ lazy.err = "nil") =>
              /\ SslAbsent(i) => lazy.har.Entries.items[i].Ssl = -1
              /\ SslZero(i) => lazy.har.Entries.items[i].Ssl = 0
        /\ (opt.state = "done" /\ opt.err = "nil") =>
              /\ SslAbsent(i) => GetSSL(opt.har.Entries[i]) = -1
              /\ SslZero(i) => GetSSL(opt.har.Entries[i]) = 0

(***************************************************************************)
(* Properties of the version detection                                     *)
(***************************************************************************)
SupportedVersions == {HarSpecVersion11, HarSpecVersion12, HarSpecVersion13}

\* C14: DetectHarVersion always returns one of "1.1", "1.2", "1.3": a version
\* that is exactly a supported one after trimming whitespace is returned as is,
\* one with a supported prefix gives that prefix, any other version, the empty
\* version and a nil archive give "1.2"; applied to its own result it returns
\* that result.
C14_DetectHarVersionNormalizes ==
    /\ det.state # "none" =>
          /\ det.version \in SupportedVersions
          /\ (ver.isNil \/ ver.Version = <<>>) => det.version = HarSpecVersion12
          /\ TrimSpace(ver.Version) \in SupportedVersions
                => det.version = TrimSpace(ver.Version)
          /\ \A p \in SupportedVersions :
                HasPrefix(TrimSpace(ver.Version), p) => det.version = p
          /\ (\A p \in SupportedVersions : ~HasPrefix(TrimSpace(ver.Version), p))
                => det.version = HarSpecVersion12
    /\ det.state = "twice" => det.again = det.version

\* "1.3.9" has been normalized to "1.3", and "1.3" to itself
C14_Witness ==
    /\ ver.Version = <<"1", ".", "3", ".", "9">>
    /\ det.state = "twice"
    /\ det.version = HarSpecVersion13
    /\ det.again = HarSpecVersion13

(***************************************************************************)
(* Properties of the decode entry points                                   *)
(***************************************************************************)
\* The log.version of the document as bytes (none: empty)
InputVersion ==
    IF cdoc.log = "obj" /\ cdoc.version.k = "str" THEN Bytes[cdoc.version.v] ELSE <<>>

\* The version prefix normalization gives for the document
NormalizedVersion == DetectHarVersion([isNil |-> FALSE, Version |-> InputVersion])

\* The document with its log.version replaced by a supported one
WithVersion12 == [cdoc EXCEPT !.version = Str("1.2")]

\* C15: every Archive returned by ParseHar or ParseHarWithOptions carries a
\* supported version, the prefix normalization of the input's log.version
\* ("1.2.3" gives "1.2", an unrecognized or empty one gives "1.2"); a document
\* that is rejected for its version only is a document that yields no such
\* Archive.
C15_ReturnedVersionIsNormalized ==
    /\ (strict.state = "done" /\ ~strict.har.isNil) =>
          Bytes[strict.har.Version] = NormalizedVersion
    /\ (pres.state = "done" /\ ~pres.har.isNil) =>
          Bytes[pres.har.Version] = NormalizedVersion
    /\ (strict.state = "done" /\ cdoc.version.k \in {"str", "absent"}
            /\ ParseHar(WithVersion12).err = "nil") =>
          /\ ~strict.har.isNil
          /\ Bytes[strict.har.Version] = NormalizedVersion

\* The header fields of the document are valid
ValidHeader ==
    /\ cdoc.log = "obj"
    /\ cdoc.version.k = "str" /\ cdoc.version.v \in HarSpecVersions
    /\ cdoc.creatorName.k = "str" /\ cdoc.creatorName.v # ""
    /\ cdoc.creatorVersion.k = "str" /\ cdoc.creatorVersion.v # ""

AllViolations(h) ==
    validateBasicStructure(h)
    \o (IF h.Version \in HarSpecVersions THEN <<>> ELSE <<[path |-> "log.version", i |-> 0]>>)
    \o validateEntries(h.Entries.items, 1)

Range(s) == {s[j] : j \in 1..Len(s)}

\* C17: when ValidateHarFile fails, the partial errors of the returned
\* Diagnostic contain one for every violated check of the whole document.
C17_ValidationAccumulates ==
    (strict.state = "done" /\ strict.err = "Validation") =>
        Range(AllViolations(UnmarshalHarDoc(cdoc).val)) \subseteq Range(strict.errs)

\* Entry i is the one entry of the document with an invalid field, its
\* response.status, and everything else of the document decodes
OnlyStatusOfEntryFails(i) ==
    /\ cdoc.log = "obj"
    /\ cdoc.entries.k = "arr"
    /\ i \in 1..Len(cdoc.entries.items)
    /\ cdoc.entries.items[i].status.k = "str"
    /\ UnmarshalHarDoc([cdoc EXCEPT !.entries.items[i].status = Num(0)]).ok

\* C18: lenient decoding with CollectWarnings of a document with N entries of
\* which exactly entry i has one invalid field, its response.status, returns an
\* Archive with N entries, entry i keeping its other fields with Status
\* defaulted, and exactly one partial error, at log.entries[i].response.status.
C18_LenientKeepsEntry ==
    \A i \in 1..MaxParseEntries :
        (pres.state = "done" /\ popts.Lenient /\ popts.CollectWarnings
             /\ OnlyStatusOfEntryFails(i)) =>
            /\ ~pres.har.isNil
            /\ pres.har.Entries.items =
                  UnmarshalHarDoc([cdoc EXCEPT !.entries.items[i].status = Num(0)])
                      .val.Entries.items
            /\ pres.errs = <<[path |-> "response.status", i |-> i]>>

\* The log is an object and at least one of its fields failed to decode
SomeFieldFailed == cdoc.log = "obj" /\ LenientDecode(cdoc).errs # <<>>

\* C19: when at least one field failed to decode, parseLenient returns (a) with
\* CollectWarnings the Diagnostic and an Archive with every sibling field that
\* did decode, (b) without CollectWarnings the Diagnostic and no Archive, and
\* (c) when log is absent or undecodable the Diagnostic and no Archive in both
\* modes.
C19_LenientTermination ==
    (pres.state = "done" /\ popts.Lenient) =>
        /\ (SomeFieldFailed /\ popts.CollectWarnings) =>
              /\ pres.err # "nil"
              /\ pres.errs # <<>>
              /\ pres.har = LenientDecode(cdoc).har
        /\ (SomeFieldFailed /\ ~popts.CollectWarnings) =>
              /\ pres.err # "nil"
              /\ pres.errs # <<>>
              /\ pres.har.isNil
        /\ cdoc.log \in {"absent", "num"} =>
              /\ pres.err # "nil"
              /\ pres.errs # <<>>
              /\ pres.har.isNil

\* C20: lenient decoding turns every failure into a partial error: each field
\* that fails to decode is one partial error of the returned Diagnostic, and so
\* is each validation failure (a missing log.version or creator name, …) of a
\* document whose fields all decode.
C20_LenientReportsValidation ==
    (pres.state = "done" /\ popts.Lenient) =>
        /\ Range(LenientDecode(cdoc).errs) \subseteq Range(pres.errs)
        /\ LenientDecode(cdoc).errs = <<>> =>
              Range(AllViolations(LenientDecode(cdoc).har)) \subseteq Range(pres.errs)
        /\ pres.errs # <<>> => pres.err # "nil"

\* C28: the in-memory cursor iterates the array that is the value of the key
\* "entries" of log: on a document in which the string "entries" also occurs
\* elsewhere (as a string value, or as a key of another object before or after
\* log.entries) Err() stays nil and Next() yields the elements of log.entries,
\* all of them by the time it first returns false.
C28_StrayEntriesTokenIgnored ==
    (source = "bytes" /\ doc \in StrayDocs /\ obs.closes = 0) =>
        /\ ItErr(it) = "nil"
        /\ Len(obs.yielded) <= Len(LogEntries)
        /\ obs.yielded = SubSeq(LogEntries, 1, Len(obs.yielded))
        /\ (obs.falseAt # 0 => Len(obs.yielded) = Len(LogEntries))

\* C27: ParseOptions.MaxWarnings bounds the warnings a lenient decode collects:
\* the Diagnostic returned by lenient decoding never carries more than
\* MaxWarnings partial errors.
C27_MaxWarningsBoundsErrors ==
    (pres.state = "done" /\ popts.Lenient) => Len(pres.errs) <= popts.MaxWarnings

\* C29: the two canonicalization paths of the compact representation agree: for
\* every OptimizedHar h = ToOptimizedHar(A), h.ToStandard() and
\* h.ToStandardHar() return equal Archives up to header order, timings that
\* were 0 in A and the server IP included.
C29_CanonicalizationsAgree ==
    (std.state = "done" /\ stdh.state = "done") => EqualModuloOrder(std.har, stdh.har)

\* The request URL of entry i of the document has a problem: it does not
\* parse, has a space, or has no "://"
URLProblem(d, i) ==
    LET j == d.entries.items[i].rest.url
        u == UrlBytes[j.v]
    IN  j.k = "str" /\ (urlParseFails(u) \/ Contains(u, <<" ">>) \/ ~Contains(u, <<":", "/", "/">>))

\* C26: ParseHarWithWarnings returns a Result and a nil error whenever lenient
\* decoding recovers an Archive; the Warnings are empty exactly when the
\* document decoded with no partial errors, no entry has a URL problem and the
\* Archive passes ValidateHarFile; and every entry i with a URL problem has a
\* warning with field log.entries[i].request.url
C26_WarningsReportEveryProblem ==
    (warn.state = "done" /\ pres.state = "done") =>
        /\ (~pres.har.isNil => (~warn.isNil /\ warn.err = "nil"))
        /\ (~warn.isNil =>
               /\ (warn.warnings = <<>>) <=>
                      (/\ pres.errs = <<>>
                       /\ \A i \in 1..Len(cdoc.entries.items) : ~URLProblem(cdoc, i)
                       /\ ValidateHarFile(pres.har) = <<>>)
               /\ \A i \in 1..Len(cdoc.entries.items) :
                      URLProblem(cdoc, i) =>
                          \E k \in 1..Len(warn.warnings) :
                              /\ warn.warnings[k].path = "request.url"
                              /\ warn.warnings[k].i = i)

\* C26 read of the entries the Archive keeps, by their index in the Archive,
\* and of a URL that is not empty
C26_RecoveredEntriesOnly ==
    (warn.state = "done" /\ ~warn.isNil) =>
        \A i \in 1..Len(warn.har.Entries.items) :
            LET u == UrlBytes[warn.har.Entries.items[i].URL]
            IN  (u # <<>> /\ (urlParseFails(u) \/ Contains(u, <<" ">>)
                              \/ ~Contains(u, <<":", "/", "/">>))) =>
                    \E k \in 1..Len(warn.warnings) :
                        /\ warn.warnings[k].path = "request.url"
                        /\ warn.warnings[k].i = i

\* What strict decoding of the buffer gives first: InvalidFormat for a buffer
\* that is empty or not delimited by {…} or […], else JSONParse for one that
\* does not decode into the archive shape, else Validation for an archive that
\* violates an invariant (when it is validated), else no error
FirstFailure(validated) ==
    IF buf.empty \/ ~((buf.first = "{" /\ buf.last = "}") \/ (buf.first = "[" /\ buf.last = "]"))
    THEN "InvalidFormat"
    ELSE IF buf.json # "object" \/ ~UnmarshalHarDoc(cdoc).ok THEN "JSONParse"
    ELSE IF validated /\ ValidateHarFile(UnmarshalHarDoc(cdoc).val) # <<>> THEN "Validation"
    ELSE "nil"

\* C23 as stated: ParseHar and ParseHarWithOptions with Lenient unset return
\* the first failure in the order InvalidFormat, JsonParse, Validation, else
\* the Archive with a nil error; the Archive is nil on every error
C23_StrictFirstFailure ==
    /\ strict.state = "done" =>
           /\ strict.err = FirstFailure(TRUE)
           /\ strict.har.isNil <=> strict.err # "nil"
    /\ (pres.state = "done" /\ ~popts.Lenient) =>
           /\ pres.err = FirstFailure(TRUE)
           /\ pres.har.isNil <=> pres.err # "nil"

\* C23 amended: ... otherwise Validation if an invariant is violated and
\* SkipValidation is unset; otherwise the Archive with a nil error
C23_StrictFirstFailureUnlessSkipped ==
    /\ strict.state = "done" =>
           /\ strict.err = FirstFailure(TRUE)
           /\ strict.har.isNil <=> strict.err # "nil"
    /\ (pres.state = "done" /\ ~popts.Lenient) =>
           /\ pres.err = FirstFailure(~popts.SkipValidation)
           /\ pres.har.isNil <=> pres.err # "nil"

\* Both have run on a document that decodes and violates an invariant:
\* ParseHar fails, ParseHarWithOptions with SkipValidation returns the Archive
C23_Witness ==
    /\ strict.state = "done" /\ strict.err = "Validation" /\ strict.har.isNil
    /\ pres.state = "done" /\ ~popts.Lenient /\ popts.SkipValidation
    /\ pres.err = "nil" /\ ~pres.har.isNil

\* The Codes of a *HarError
HarErrorCodes ==
    {"Unknown", "FileSystem", "JSONParse", "InvalidFormat", "Validation", "MissingField",
     "InvalidValue", "Unsupported"}

\* C24: whenever ParseHar, ParseHarOptimized, ParseHarWithLazyLoading, Parse or
\* NewStreamingParser returns a non-nil error on a byte buffer, the error is a
\* *HarError whose Code is one of the enumerated kinds
C24_EveryFailureIsDiagnostic ==
    /\ (strict.state = "done" /\ strict.err # "nil") => strict.err \in HarErrorCodes
    /\ (opt.state = "done" /\ opt.err # "nil") => opt.err \in HarErrorCodes
    /\ (lazy.state = "done" /\ lazy.err # "nil") => lazy.err \in HarErrorCodes
    /\ (prov.state = "done" /\ prov.err # "nil") => prov.err \in HarErrorCodes
    /\ (strm.state = "done" /\ strm.err # "nil") => strm.err \in HarErrorCodes

\* C24 for the entry points that construct their errors themselves: ParseHar,
\* ParseHarWithLazyLoading, and Parse without WithMemoryOptimized
C24_DirectFailuresAreDiagnostics ==
    /\ (strict.state = "done" /\ strict.err # "nil") => strict.err \in HarErrorCodes
    /\ (lazy.state = "done" /\ lazy.err # "nil") => lazy.err \in HarErrorCodes
    /\ (prov.state = "done" /\ prov.err # "nil"
           /\ (pcall.useStreaming \/ ~pcall.useMemoryOptimized)) =>
           prov.err \in HarErrorCodes

\* The accessors that were called on the entries of the provider
AccessorNames ==
    {"GetMethod", "GetURL", "GetStatus", "GetSize", "GetMimeType", "GetText", "GetEncoding",
     "GetSSL", "GetWait"}

\* C21: every accessor of every entry of a provider, chained calls such as
\* entry.GetResponse().GetContent().GetSize() included, returns a value and
\* does not panic
C21_AccessorsNeverFail ==
    access.state = "done" =>
        \A i \in 1..Len(access.got) : \A a \in AccessorNames : a \notin access.got[i].panics

\* C21 for the providers that Parse returns
C21_AccessorsOfParseNeverFail ==
    (access.state = "done" /\ prov.state = "done") =>
        \A i \in 1..Len(access.got) : \A a \in AccessorNames : a \notin access.got[i].panics

\* The options of Parse(bytes), Parse(bytes, WithMemoryOptimized()) and
\* Parse(bytes, WithLazyLoading())
RepresentationCalls ==
    {defaultOptions, [defaultOptions EXCEPT !.useMemoryOptimized = TRUE],
     [defaultOptions EXCEPT !.useLazyLoading = TRUE]}

\* C22: for the same bytes, the accessors of every entry return the same
\* values whether Parse was called with no option, WithMemoryOptimized or
\* WithLazyLoading
C22_RepresentationsInterchangeable ==
    (access.state = "done" /\ prov.state = "done" /\ prov.err = "nil"
        /\ pcall \in RepresentationCalls /\ Parse(buf, cdoc, defaultOptions).err = "nil") =>
        access.got = Accessors(Parse(buf, cdoc, defaultOptions).provider)

\* C22 for GetURL, GetStatus, GetSize and GetMimeType alone
C22_PlainFieldsInterchangeable ==
    (access.state = "done" /\ prov.state = "done" /\ prov.err = "nil"
        /\ pcall \in RepresentationCalls /\ Parse(buf, cdoc, defaultOptions).err = "nil") =>
        /\ Len(access.got) = Len(Accessors(Parse(buf, cdoc, defaultOptions).provider))
        /\ \A i \in 1..Len(access.got) :
               \A a \in {"GetURL", "GetStatus", "GetSize", "GetMimeType"} :
                   access.got[i][a] = Accessors(Parse(buf, cdoc, defaultOptions).provider)[i][a]

\* C25: with WithSkipValidation, Parse of a document that decodes into the
\* archive shape returns a provider and a nil error, with no representation
\* option, with WithMemoryOptimized and with WithLazyLoading
C25_SkipValidationAlwaysReturns ==
    (prov.state = "done" /\ pcall.skipValidation /\ ~pcall.useStreaming /\ ~pcall.lenient
        /\ buf.json = "object" /\ UnmarshalHarDoc(cdoc).ok) =>
        /\ prov.err = "nil"
        /\ ~prov.provider.isNilInterface
        /\ ~prov.provider.har.isNil

\* C25 without WithMemoryOptimized
C25_SkipValidationUnlessCompact ==
    (prov.state = "done" /\ pcall.skipValidation /\ ~pcall.useStreaming /\ ~pcall.lenient
        /\ ~pcall.useMemoryOptimized /\ buf.json = "object" /\ UnmarshalHarDoc(cdoc).ok) =>
        /\ prov.err = "nil"
        /\ ~prov.provider.isNilInterface
        /\ ~prov.provider.har.isNil

\* C30: whenever Parse returns a non-nil error and no Archive, the provider is
\* the nil interface value, never an interface value that wraps a nil pointer
C30_FailedParseReturnsNilInterface ==
    (prov.state = "done" /\ prov.err # "nil"
        /\ (prov.provider.isNilInterface \/ prov.provider.har.isNil)) =>
        prov.provider.isNilInterface

\* C30 for the failures of validateInput and of WithStreaming
C30_EarlyFailuresReturnNilInterface ==
    (prov.state = "done" /\ prov.err # "nil"
        /\ (validateInput(buf) # "nil" \/ pcall.useStreaming)) =>
        prov.provider.isNilInterface

====
